---- MODULE Spec2Model ----
(***************************************************************************)
(* Model of the adaptive rule engine of SlackChannelChameleon (rules.ts,   *)
(* kept in src/unnamed/part_001 lines 26-434) and of the message handler   *)
(* and periodic timer that drive it (src/src/index.ts).                    *)
(*                                                                         *)
(* Rulesets are sets of rule ids.  Random choices (Math.random) are        *)
(* inputs: a function that draws at random is modelled by the set of       *)
(* results it can return.                                                  *)
(***************************************************************************)
EXTENDS Integers, Sequences, FiniteSets, TLC

----------------------------------------------------------------------------
(* RuleCatalog: the `rules` array and the `conflicts` pair list.           *)

rules ==
  << [id |-> "all-lowercase",         difficulty |-> 1],
     [id |-> "all-uppercase",         difficulty |-> 1],
     [id |-> "only-emojis",           difficulty |-> 2],
     [id |-> "unique-messages",       difficulty |-> 5],
     [id |-> "no-common-words",       difficulty |-> 4],
     [id |-> "never-repeats-letters", difficulty |-> 5],
     [id |-> "every-letter",          difficulty |-> 4],
     [id |-> "no-spaces",             difficulty |-> 3],
     [id |-> "no-punctuation",        difficulty |-> 2] >>

conflicts ==
  << <<"all-lowercase", "all-uppercase">>,
     <<"only-emojis", "all-lowercase">>,
     <<"only-emojis", "all-uppercase">>,
     <<"only-emojis", "no-common-words">>,
     <<"only-emojis", "never-repeats-letters">>,
     <<"only-emojis", "every-letter">>,
     <<"only-emojis", "no-spaces">>,
     <<"only-emojis", "no-punctuation">>,
     <<"never-repeats-letters", "every-letter">>,
     <<"no-common-words", "no-spaces">> >>

RuleIds == { rules[i].id : i \in DOMAIN rules }

\* rules.find(rule => rule.id === id), tabulated: the index of the first rule
\* with that id, 0 when there is none (undefined).
ruleIndex ==
  [ id \in RuleIds \cup { conflicts[n][k] : n \in DOMAIN conflicts, k \in 1..2 } |->
      IF \E i \in DOMAIN rules : rules[i].id = id
      THEN CHOOSE i \in DOMAIN rules :
             rules[i].id = id /\ \A j \in DOMAIN rules : rules[j].id = id => i <= j
      ELSE 0 ]

findRule(id) == IF id \in DOMAIN ruleIndex THEN ruleIndex[id] ELSE 0

\* conflicts.forEach: a pair with an unknown id is logged and skipped; a pair
\* of known ids is pushed onto both rules' conflictsWith.
resolvedConflicts ==
  { n \in DOMAIN conflicts : findRule(conflicts[n][1]) # 0 /\ findRule(conflicts[n][2]) # 0 }

conflictsWith ==
  [ id \in RuleIds |->
      { conflicts[n][2] : n \in { k \in resolvedConflicts : conflicts[k][1] = id } }
      \cup
      { conflicts[n][1] : n \in { k \in resolvedConflicts : conflicts[k][2] = id } } ]

----------------------------------------------------------------------------
(* Tunables of the controller.  Times are counted in model time units and   *)
(* the sample sizes and the number of mutated candidates are scaled down   *)
(* (source: 5 min, 5 h, 10 messages, 100 messages, 15 candidates); the     *)
(* ratios, the initial difficulty and the mutation amount are the source's.*)

minimumTimeBetweenChanges == 2
maximumTimeBetweenChanges == 3
minimumSampleSize == 2
maximumMessagesUntilChange == 2
mutationIterations == 2

\* minFailRatio = 0.1 and maxFailRatio = 0.5 as fractions
minFailRatioNum == 1
minFailRatioDen == 10
maxFailRatioNum == 1
maxFailRatioDen == 2
initialRoughDifficulty == 6
mutationAmount == 3

----------------------------------------------------------------------------
(* ConstraintValidator, DifficultyScorer, RulesetSearch                    *)

isValidRulesetEvery(ruleset) ==
  LET cs == UNION { conflictsWith[id] : id \in ruleset \cap RuleIds }
  IN  ~ \A conflict \in cs : conflict \in ruleset

isValidRuleset(ruleset) ==
  LET cs == UNION { conflictsWith[id] : id \in ruleset \cap RuleIds }
  IN  ~ \E conflict \in cs : conflict \in ruleset

RECURSIVE SumDifficulty(_)
SumDifficulty(ruleset) ==
  IF ruleset = {} THEN 0
  ELSE LET id == CHOOSE x \in ruleset : TRUE
       IN  rules[findRule(id)].difficulty + SumDifficulty(ruleset \ {id})

calculateDifficultyFromOne(ruleset) == 1 + SumDifficulty(ruleset)

calculateDifficulty(ruleset) == SumDifficulty(ruleset)

\* One pass of the do-while body of mutateRuleset: flip the membership of the
\* rule drawn.
Toggle(ruleset, id) ==
  IF id \in ruleset THEN ruleset \ {id} ELSE ruleset \cup {id}

\* The sets the do-while loop can leave with: the flips of oldRuleset that
\* are valid.
AcceptedToggles(oldRuleset) ==
  { n \in { Toggle(oldRuleset, id) : id \in RuleIds } : isValidRuleset(n) }

\* The rulesets mutateRuleset(currentRuleset, amount) can return.
RECURSIVE mutateRuleset(_, _)
mutateRuleset(currentRuleset, amount) ==
  IF amount = 0 THEN {currentRuleset}
  ELSE UNION { mutateRuleset(n, amount - 1) : n \in AcceptedToggles(currentRuleset) }

getAdditionalRulesUnchecked(currentRuleset) ==
  { id \in RuleIds : id \notin currentRuleset }

getAdditionalValidRules(currentRuleset) ==
  { id \in RuleIds : id \notin currentRuleset
                     /\ isValidRuleset(currentRuleset \cup {id}) }

\* The while loop of randomValidRuleset from `ruleset` on; the target
\* roughDifficulty is the fraction num/den.
RECURSIVE BuildRuleset(_, _, _)
BuildRuleset(ruleset, num, den) ==
  IF calculateDifficulty(ruleset) * den < num
  THEN LET validRules == getAdditionalValidRules(ruleset)
       IN  IF validRules = {} THEN {ruleset}
           ELSE UNION { BuildRuleset(ruleset \cup {ruleToAdd}, num, den) :
                          ruleToAdd \in validRules }
  ELSE {ruleset}

\* The rulesets randomValidRuleset(num/den, attempt) can return.
RECURSIVE randomValidRuleset(_, _, _)
randomValidRuleset(num, den, attempt) ==
  UNION { IF ruleset = {} /\ attempt < 10
          THEN randomValidRuleset(num, den, attempt + 1)
          ELSE {ruleset} : ruleset \in BuildRuleset({}, num, den) }

ValidRulesets == { s \in SUBSET RuleIds : isValidRuleset(s) }

\* The results makeEasierRuleset(currentRuleset) can give.  mutatedRulesets
\* ranges over the arrays the mutationIterations calls of mutateRuleset can
\* produce.  The comparator of the sort ignores its second argument and is
\* positive on every element left by the filter, so the order after the sort,
\* and with it the element pop() takes, is any element of the filtered array.
makeEasierRulesetOrEqual(currentRuleset) ==
  LET mutations == mutateRuleset(currentRuleset, mutationAmount)
      current   == calculateDifficulty(currentRuleset)
      easier    == { ruleset \in mutations : calculateDifficulty(ruleset) <= current }
  IN  UNION {
        LET filtered == SelectSeq(mutatedRulesets, LAMBDA ruleset : ruleset \in easier)
        IN  IF filtered = << >>
            THEN { [success |-> FALSE, ruleset |-> currentRuleset] }
            ELSE { [success |-> TRUE, ruleset |-> filtered[i]] : i \in DOMAIN filtered }
        : mutatedRulesets \in [1..mutationIterations -> mutations] }

makeEasierRuleset(currentRuleset) ==
  LET mutations == mutateRuleset(currentRuleset, mutationAmount)
      current   == calculateDifficulty(currentRuleset)
      easier    == { ruleset \in mutations : calculateDifficulty(ruleset) < current }
  IN  UNION {
        LET filtered == SelectSeq(mutatedRulesets, LAMBDA ruleset : ruleset \in easier)
        IN  IF filtered = << >>
            THEN { [success |-> FALSE, ruleset |-> currentRuleset] }
            ELSE { [success |-> TRUE, ruleset |-> filtered[i]] : i \in DOMAIN filtered }
        : mutatedRulesets \in [1..mutationIterations -> mutations] }

makeHarderRulesetOrEqual(currentRuleset) ==
  LET mutations == mutateRuleset(currentRuleset, mutationAmount)
      current   == calculateDifficulty(currentRuleset)
      harder    == { ruleset \in mutations : calculateDifficulty(ruleset) >= current }
  IN  UNION {
        LET filtered == SelectSeq(mutatedRulesets, LAMBDA ruleset : ruleset \in harder)
        IN  IF filtered = << >>
            THEN { [success |-> FALSE, ruleset |-> currentRuleset] }
            ELSE { [success |-> TRUE, ruleset |-> filtered[i]] : i \in DOMAIN filtered }
        : mutatedRulesets \in [1..mutationIterations -> mutations] }

makeHarderRuleset(currentRuleset) ==
  LET mutations == mutateRuleset(currentRuleset, mutationAmount)
      current   == calculateDifficulty(currentRuleset)
      harder    == { ruleset \in mutations : calculateDifficulty(ruleset) > current }
  IN  UNION {
        LET filtered == SelectSeq(mutatedRulesets, LAMBDA ruleset : ruleset \in harder)
        IN  IF filtered = << >>
            THEN { [success |-> FALSE, ruleset |-> currentRuleset] }
            ELSE { [success |-> TRUE, ruleset |-> filtered[i]] : i \in DOMAIN filtered }
        : mutatedRulesets \in [1..mutationIterations -> mutations] }

\* The two functions tabulated over the valid rulesets (@@ makes TLC hold the
\* table as an explicit function instead of evaluating the body again).
makeEasierTable == [ r \in ValidRulesets |-> makeEasierRuleset(r) ] @@ << >>

makeHarderTable == [ r \in ValidRulesets |-> makeHarderRuleset(r) ] @@ << >>

\* The arrays Array.from({ length: mutationIterations }, () => mutateRuleset(...))
\* can build.
mutatedRulesetArrays(currentRuleset) ==
  [ 1..mutationIterations -> mutateRuleset(currentRuleset, mutationAmount) ]

\* filter(...).sort(...).pop() of makeEasierRuleset on the array
\* mutatedRulesets, and the value returned.  (The sort: see makeEasierRuleset.)
closestEasierReturnsCandidate(currentRuleset, mutatedRulesets) ==
  LET filtered == SelectSeq(mutatedRulesets, LAMBDA ruleset :
                    calculateDifficulty(ruleset) < calculateDifficulty(currentRuleset))
  IN  IF filtered = << >>
      THEN { [success |-> FALSE, ruleset |-> mutatedRulesets[Len(mutatedRulesets)]] }
      ELSE { [success |-> TRUE, ruleset |-> filtered[i]] : i \in DOMAIN filtered }

closestEasier(currentRuleset, mutatedRulesets) ==
  LET filtered == SelectSeq(mutatedRulesets, LAMBDA ruleset :
                    calculateDifficulty(ruleset) < calculateDifficulty(currentRuleset))
  IN  IF filtered = << >>
      THEN { [success |-> FALSE, ruleset |-> currentRuleset] }
      ELSE { [success |-> TRUE, ruleset |-> filtered[i]] : i \in DOMAIN filtered }

closestHarder(currentRuleset, mutatedRulesets) ==
  LET filtered == SelectSeq(mutatedRulesets, LAMBDA ruleset :
                    calculateDifficulty(ruleset) > calculateDifficulty(currentRuleset))
  IN  IF filtered = << >>
      THEN { [success |-> FALSE, ruleset |-> currentRuleset] }
      ELSE { [success |-> TRUE, ruleset |-> filtered[i]] : i \in DOMAIN filtered }

\* The members of the Set passed to mutateRuleset once the call has returned
\* newRuleset: the function works on copies (new Set(currentRuleset), new
\* Set(oldRuleset)) and never writes to its argument.
argumentAfterMutate(currentRuleset, newRuleset) == currentRuleset

----------------------------------------------------------------------------
(* The search functions over a catalog given as a value, with the order in *)
(* which randomValidRuleset adds the rules in view.  A catalog is a record *)
(* of a `rules` array and a `conflicts` pair list.                         *)

sourceCatalog == [rules |-> rules, conflicts |-> conflicts]

\* The two-rule catalog of the specification's example: A and B of weight 1,
\* B conflicting with A.
exampleCatalog ==
  [rules |-> << [id |-> "A", difficulty |-> 1], [id |-> "B", difficulty |-> 1] >>,
   conflicts |-> << <<"B", "A">> >>]

\* A catalog without admissible first rule: its one rule conflicts with itself.
selfConflictCatalog ==
  [rules |-> << [id |-> "A", difficulty |-> 1] >>,
   conflicts |-> << <<"A", "A">> >>]

Catalogs == { sourceCatalog, exampleCatalog, selfConflictCatalog }

idsOf(catalog) == { catalog.rules[i].id : i \in DOMAIN catalog.rules }

\* rule.conflictsWith as conflicts.forEach fills it
conflictsWithIn(catalog, id) ==
  LET known == { n \in DOMAIN catalog.conflicts :
                   /\ catalog.conflicts[n][1] \in idsOf(catalog)
                   /\ catalog.conflicts[n][2] \in idsOf(catalog) }
  IN  { catalog.conflicts[n][2] : n \in { k \in known : catalog.conflicts[k][1] = id } }
      \cup
      { catalog.conflicts[n][1] : n \in { k \in known : catalog.conflicts[k][2] = id } }

isValidRulesetIn(catalog, ruleset) ==
  LET cs == UNION { conflictsWithIn(catalog, id) : id \in ruleset \cap idsOf(catalog) }
  IN  ~ \E conflict \in cs : conflict \in ruleset

RECURSIVE calculateDifficultyIn(_, _)
calculateDifficultyIn(catalog, ruleset) ==
  IF ruleset = {} THEN 0
  ELSE LET id   == CHOOSE x \in ruleset : TRUE
           rule == CHOOSE i \in DOMAIN catalog.rules :
                     /\ catalog.rules[i].id = id
                     /\ \A j \in DOMAIN catalog.rules : catalog.rules[j].id = id => i <= j
       IN  catalog.rules[rule].difficulty + calculateDifficultyIn(catalog, ruleset \ {id})

getAdditionalRulesUncheckedIn(catalog, currentRuleset) ==
  { id \in idsOf(catalog) : id \notin currentRuleset }

getAdditionalValidRulesIn(catalog, currentRuleset) ==
  { id \in idsOf(catalog) : id \notin currentRuleset
                            /\ isValidRulesetIn(catalog, currentRuleset \cup {id}) }

Range(seq) == { seq[i] : i \in DOMAIN seq }

\* The loop condition calculateDifficulty(ruleset) < roughDifficulty, for the
\* target num/den.
belowOrAtTarget(catalog, ruleset, num, den) ==
  calculateDifficultyIn(catalog, ruleset) * den <= num

belowTarget(catalog, ruleset, num, den) ==
  calculateDifficultyIn(catalog, ruleset) * den < num

\* The while loop of randomValidRuleset from the rules `added` so far (in the
\* order of ruleset.add): the sequences of additions it can end with.
RECURSIVE buildIn(_, _, _, _)
buildIn(catalog, added, num, den) ==
  IF belowTarget(catalog, Range(added), num, den)
  THEN LET validRules == getAdditionalValidRulesIn(catalog, Range(added))
       IN  IF validRules = {} THEN {added}
           ELSE UNION { buildIn(catalog, Append(added, ruleToAdd), num, den) :
                          ruleToAdd \in validRules }
  ELSE {added}

\* randomValidRuleset(num/den, attempt): the outcomes it can have, each with
\* the additions of the attempt that returned and the number of that attempt.
\* The function has no throw statement: every outcome is a returned Set.
RECURSIVE randomValidRulesetIn(_, _, _, _)
randomValidRulesetIn(catalog, num, den, attempt) ==
  UNION { IF added = << >> /\ attempt < 10
          THEN randomValidRulesetIn(catalog, num, den, attempt + 1)
          ELSE { [returned |-> TRUE, ruleset |-> Range(added),
                  added |-> added, attempt |-> attempt] }
          : added \in buildIn(catalog, << >>, num, den) }

----------------------------------------------------------------------------
(* Messages and the rules' checks.  A message text is a sequence of        *)
(* one-character strings.                                                  *)

Messages == { <<"a", "b">>, <<"a", " ", "b">> }

\* What the workspace search of unique-messages answers for a message: a
\* message posted before is found ("found"), a new one is not ("none"), and
\* the request can fail ("fails").
searchOutcomes(message) ==
  { IF message = <<"a", "b">> THEN "found" ELSE "none", "fails" }

toLowerCase(c) == CASE c = "A" -> "a" [] c = "B" -> "b" [] OTHER -> c
toUpperCase(c) == CASE c = "a" -> "A" [] c = "b" -> "B" [] OTHER -> c
isLetter(c) == toLowerCase(c) \in {"a", "b"}

\* message.split(sep) for a set of separator characters, a run of which
\* counts as one separator when `runs` (the regular expression's +).
RECURSIVE splitFrom(_, _, _, _, _)
splitFrom(message, seps, runs, i, word) ==
  IF i > Len(message) THEN << word >>
  ELSE IF message[i] \in seps
       THEN IF runs /\ i > 1 /\ message[i - 1] \in seps
            THEN splitFrom(message, seps, runs, i + 1, word)
            ELSE << word >> \o splitFrom(message, seps, runs, i + 1, << >>)
       ELSE splitFrom(message, seps, runs, i + 1, Append(word, message[i]))

split(message, seps, runs) == splitFrom(message, seps, runs, 1, << >>)

\* The part of topThousandEnglishWords.json the messages of the model can hit.
topThousandWords == { <<"a">> }

\* rule.check(message, app) of the rule `id`; searchTotalIsZero is what the
\* workspace search of unique-messages answers.
check(id, message, searchTotalIsZero) ==
  CASE id = "all-lowercase" ->
         message = [i \in DOMAIN message |-> toLowerCase(message[i])]
    [] id = "all-uppercase" ->
         message = [i \in DOMAIN message |-> toUpperCase(message[i])]
    [] id = "only-emojis" ->
         LET words == split(message, {" "}, FALSE)
         IN  \A k \in DOMAIN words :
               /\ words[k] # << >>
               /\ words[k][1] = ":"
               /\ words[k][Len(words[k])] = ":"
    [] id = "unique-messages" -> searchTotalIsZero
    [] id = "no-common-words" ->
         LET words == split(message, {" ", "-", ".", ",", "!", "?"}, TRUE)
         IN  \A k \in DOMAIN words :
               [i \in DOMAIN words[k] |-> toLowerCase(words[k][i])]
                 \notin topThousandWords
    [] id = "never-repeats-letters" ->
         LET letters == SelectSeq([i \in DOMAIN message |-> toLowerCase(message[i])],
                                  isLetter)
         IN  Cardinality({ letters[i] : i \in DOMAIN letters }) = Len(letters)
    [] id = "every-letter" ->
         LET letters == SelectSeq([i \in DOMAIN message |-> toLowerCase(message[i])],
                                  isLetter)
         IN  Cardinality({ letters[i] : i \in DOMAIN letters }) = 26
    [] id = "no-spaces" -> \A i \in DOMAIN message : message[i] # " "
    [] id = "no-punctuation" ->
         \A i \in DOMAIN message : message[i] \notin {".", ",", "!", "?", ":", ";"}

ruleIdSeq == [ i \in DOMAIN rules |-> rules[i].id ]

\* The value getViolations resolves to: the rules of the catalog, in catalog
\* order, that are in `active` and whose check returned false.
getViolations(active, message, searchTotalIsZero) ==
  SelectSeq(ruleIdSeq,
            LAMBDA id : id \in active /\ ~ check(id, message, searchTotalIsZero))

\* getViolations step by step.  searchOutcome is what the search of
\* unique-messages answers.  checkSettles: what the promise of one rule's check
\* settles to: "rejected" when the check fails, "undefined" when it returned
\* true, the rule when it returned false.
CheckMessages ==
  Messages \cup { <<"A", "B">>, <<"a", "a">>, <<":", "a", ":">>, <<"b", ".">> }

checkSettlesNegated(id, message, searchOutcome) ==
  IF id = "unique-messages" /\ searchOutcome = "fails" THEN "rejected"
  ELSE IF check(id, message, searchOutcome = "none") THEN id
  ELSE "undefined"

checkSettles(id, message, searchOutcome) ==
  IF id = "unique-messages" /\ searchOutcome = "fails" THEN "rejected"
  ELSE IF check(id, message, searchOutcome = "none") THEN "undefined"
  ELSE id

\* rules.filter(active).map(check ...), then Promise.all, which rejects as soon
\* as one of the promises rejects, then filter(violation !== undefined).
getViolationsSettles(active, message, searchOutcome) ==
  LET activeSeq == SelectSeq(ruleIdSeq, LAMBDA id : id \in active)
      violationPromises ==
        [ i \in DOMAIN activeSeq |-> checkSettles(activeSeq[i], message, searchOutcome) ]
  IN  IF \E i \in DOMAIN violationPromises : violationPromises[i] = "rejected"
      THEN [returned |-> FALSE, violations |-> << >>]
      ELSE [returned |-> TRUE,
            violations |-> SelectSeq(violationPromises,
                                     LAMBDA violation : violation # "undefined")]

----------------------------------------------------------------------------
(* The engine state of rules.ts and the processes of index.ts              *)

\* Bounds of the model: the clock stops at MaxNow, at most MaxHandlers
\* message handlers are in flight, and no message is taken in once the
\* history and the handlers in flight together hold MaxHistory records.
MaxNow == 4
MaxHandlers == 1
MaxHistory == 3

\* The search functions are called with targets 0 .. MaxTarget, in halves,
\* and with amounts 1 .. MaxAmount.
MaxTarget == 18
MaxAmount == 3

Handlers == 1..MaxHandlers

ReasonInitial        == "An initial ruleset has been created."
ReasonLongTime       == "The ruleset has been changed entirely, since it has been a long time since it was last changed."
ReasonManyMessages   == "The ruleset has been changed entirely, since there have been a lot of messages since it was last changed."
ReasonEasierFallback == "The fail ratio is high, but the ruleset couldn't be made easier, so we're changing it entirely."
ReasonEasier         == "The ruleset has been made easier since the fail ratio is high."
ReasonHarderFallback == "The fail ratio is low, but the ruleset couldn't be made harder, so we're changing it entirely."
ReasonHarder         == "The ruleset has been made harder since the fail ratio is low."
ReasonChance         == "The ruleset has been changed entirely by chance."
NoReason             == "none"

VARIABLES
  activeRules,                     \* the Set activeRules
  violationHistoryForThisRuleset,  \* array of records { violations }
  lastRulesetChange,               \* Date.now() of the last updateRules
  now,                             \* the clock Date.now() reads
  started,                         \* index.ts has run initializeRules(app)
  handlers,                        \* the app.message handlers in flight
  lastOp,                          \* the operation the last step ran
  call,                            \* a call of a search function on its own
  io                               \* the Node process, its environment, its posts

vars == << activeRules, violationHistoryForThisRuleset, lastRulesetChange, now,
           started, handlers, lastOp, call, io >>

engine == << activeRules, violationHistoryForThisRuleset, lastRulesetChange >>

Idle == [pc |-> "idle", violations |-> << >>]

\* lastOp: the function that ran, the outcomes of the Math.random() < chance
\* tests it made (in call order) and the reason it passed to updateRules,
\* NoReason when it did not call updateRules.
Op(name, draws, reason) == [op |-> name, draws |-> draws, reason |-> reason]

\* call: the function called, the ruleset passed in and the value returned;
\* for makeEasierRuleset and makeHarderRuleset also the array mutatedRulesets
\* and the members of the ruleset passed in once the call has returned.
\* For randomValidRuleset: the catalog, the target <<num, den>> in args and the
\* outcome; for mutateRuleset: the amount in args.
NoCall ==
  [fn |-> "none", input |-> {}, result |-> [success |-> FALSE, ruleset |-> {}],
   candidates |-> << >>, inputAfter |-> {},
   catalog |-> sourceCatalog, args |-> << >>,
   outcome |-> [returned |-> FALSE, ruleset |-> {}, added |-> << >>, attempt |-> 0]]

\* io: whether the process runs, process.env.CHANNEL_ID set or not,
\* process.env.QUIET ("unset", "full" or another value), and the last
\* chat.postMessage issued by updateRules (the reason and the rules its text
\* lists as active).
NoPost == [reason |-> NoReason, ruleset |-> {}]

IoInit == [alive |-> TRUE, CHANNEL_ID |-> TRUE, QUIET |-> "unset", posted |-> NoPost]

Init ==
  /\ activeRules = {}
  /\ violationHistoryForThisRuleset = << >>
  /\ now = 0
  /\ lastRulesetChange = now
  /\ started = FALSE
  /\ handlers = [h \in Handlers |-> Idle]
  /\ lastOp = Op("load", << >>, NoReason)
  /\ call = NoCall
  /\ io = IoInit

\* getFailRatio is messagesViolatingRules / history.length: the two terms
messagesViolatingRules ==
  Len(SelectSeq(violationHistoryForThisRuleset,
                LAMBDA ruleset : Len(ruleset.violations) > 0))

\* getFailRatio (lines 143-146): the quotient as the fraction num / den.  Of
\* an empty history it is 0 / 0, which is NaN.
getFailRatioCountsClean ==
  [num |-> Len(violationHistoryForThisRuleset) - messagesViolatingRules,
   den |-> Len(violationHistoryForThisRuleset)]

getFailRatio ==
  [num |-> messagesViolatingRules, den |-> Len(violationHistoryForThisRuleset)]

isNaN(failRatio) == failRatio.den = 0

\* failRatio > maxFailRatio and failRatio < minFailRatio, for the ratio
\* violating / length with length > 0
failRatioTooHighOrEqual(violating, length) ==
  violating * maxFailRatioDen >= maxFailRatioNum * length

failRatioTooHigh(violating, length) ==
  violating * maxFailRatioDen > maxFailRatioNum * length

failRatioNeverTooLow(violating, length) == FALSE

failRatioTooLow(violating, length) ==
  violating * minFailRatioDen < minFailRatioNum * length

\* The gates of evaluateChange
tooSoonOffByOne(timeSinceLastChange) ==
  timeSinceLastChange < minimumTimeBetweenChanges - 1

tooSoonNever(timeSinceLastChange) == FALSE

tooSoon(timeSinceLastChange) == timeSinceLastChange < minimumTimeBetweenChanges

tooLongLate(timeSinceLastChange) == timeSinceLastChange > maximumTimeBetweenChanges + 1

tooLong(timeSinceLastChange) == timeSinceLastChange > maximumTimeBetweenChanges

tooFewMessagesNever(length) == FALSE

tooFewMessages(length) == length < minimumSampleSize

tooManyMessagesNever(length) == FALSE

tooManyMessages(length) == length > maximumMessagesUntilChange

\* The synchronous head of updateRules: copy newRuleset into activeRules,
\* empty the history, stamp the clock.
updateRulesKeepHistory(newRuleset, reason) ==
  /\ activeRules' = newRuleset
  /\ violationHistoryForThisRuleset' = violationHistoryForThisRuleset
  /\ lastRulesetChange' = now

\* (What follows in updateRules, the announcement and the canvas, writes
\* none of these variables; updateRulesTail below models it.)
updateRules(newRuleset, reason) ==
  /\ activeRules' = newRuleset
  /\ violationHistoryForThisRuleset' = << >>
  /\ lastRulesetChange' = now

\* randomValidRuleset((initialRoughDifficulty + calculateDifficulty(activeRules)) / 2)
regeneratedTable ==
  [ difficulty \in { calculateDifficulty(r) : r \in ValidRulesets } |->
      randomValidRuleset(initialRoughDifficulty + difficulty, 2, 0) ] @@ << >>

regeneratedForEmpty == regeneratedTable[calculateDifficulty({})]

regenerated == regeneratedTable[calculateDifficulty(activeRules)]

\* evaluateChange.  changeDraw and completeDraw are the outcomes of
\* Math.random() < changeChance and Math.random() < completeChangeChance.
evaluateChange ==
  LET timeSinceLastChange == now - lastRulesetChange
      length == Len(violationHistoryForThisRuleset)
      unchanged(draws) ==
        /\ UNCHANGED engine
        /\ lastOp' = Op("evaluateChange", draws, NoReason)
      entirely(draws, reason) ==
        \E newRuleset \in regenerated :
          /\ updateRules(newRuleset, reason)
          /\ lastOp' = Op("evaluateChange", draws, reason)
      byChance(changeDraw) ==
        \E completeDraw \in BOOLEAN :
          IF completeDraw
          THEN entirely(<<changeDraw, TRUE>>, ReasonChance)
          ELSE unchanged(<<changeDraw, FALSE>>)
  IN
  IF tooSoon(timeSinceLastChange) THEN unchanged(<< >>)
  ELSE IF tooLong(timeSinceLastChange) THEN entirely(<< >>, ReasonLongTime)
  ELSE IF tooFewMessages(length) THEN unchanged(<< >>)
  ELSE IF tooManyMessages(length) THEN entirely(<< >>, ReasonManyMessages)
  ELSE \E changeDraw \in BOOLEAN :
    IF changeDraw /\ failRatioTooHigh(messagesViolatingRules, length)
    THEN \E newRuleset \in makeEasierTable[activeRules] :
           IF ~ newRuleset.success
           THEN entirely(<<TRUE>>, ReasonEasierFallback)
           ELSE /\ updateRules(newRuleset.ruleset, ReasonEasier)
                /\ lastOp' = Op("evaluateChange", <<TRUE>>, ReasonEasier)
    ELSE IF changeDraw /\ failRatioTooLow(messagesViolatingRules, length)
    THEN \E newRuleset \in makeHarderTable[activeRules] :
           IF ~ newRuleset.success
           THEN entirely(<<TRUE>>, ReasonHarderFallback)
           ELSE /\ updateRules(newRuleset.ruleset, ReasonHarder)
                /\ lastOp' = Op("evaluateChange", <<TRUE>>, ReasonHarder)
    ELSE byChance(changeDraw)

addToViolationHistoryFront(violations) ==
  violationHistoryForThisRuleset' =
    << [violations |-> violations] >> \o violationHistoryForThisRuleset

addToViolationHistoryTwice(violations) ==
  violationHistoryForThisRuleset' =
    violationHistoryForThisRuleset
      \o << [violations |-> violations], [violations |-> violations] >>

addToViolationHistoryOnlyViolating(violations) ==
  violationHistoryForThisRuleset' =
    IF violations = << >> THEN violationHistoryForThisRuleset
    ELSE Append(violationHistoryForThisRuleset, [violations |-> violations])

addToViolationHistory(violations) ==
  violationHistoryForThisRuleset' =
    Append(violationHistoryForThisRuleset, [violations |-> violations])

\* A synchronous stretch of a handler is running: between addToViolationHistory
\* and evaluateChange (index.ts lines 53-54) nothing else runs.
Busy == \E h \in Handlers : handlers[h].pc = "evaluating"

\* The number of handlers between their first and their last statement.
InFlight == Cardinality({ h \in Handlers : handlers[h].pc # "idle" })

----------------------------------------------------------------------------
(* Actions                                                                 *)

\* index.ts line 16: initializeRules(app)
InitializeRules ==
  /\ ~ started
  /\ call = NoCall
  /\ \E newRuleset \in randomValidRuleset(initialRoughDifficulty, 1, 0) :
       updateRules(newRuleset, ReasonInitial)
  /\ started' = TRUE
  /\ lastOp' = Op("initializeRules", << >>, ReasonInitial)
  /\ UNCHANGED << now, handlers, call, io >>

\* app.message up to the await of getViolations: the message has passed the
\* subtype and channel filters, and the checks of the rules active now are
\* started.  searchOutcome is what the search of unique-messages answers; when
\* the search fails the promise of getViolations rejects and the handler ends.
ReceiveMessage(h, message, searchOutcome) ==
  /\ started /\ ~ Busy
  /\ handlers[h].pc = "idle"
  /\ Len(violationHistoryForThisRuleset) + InFlight < MaxHistory
  /\ IF "unique-messages" \in activeRules /\ searchOutcome = "fails"
     THEN handlers' = handlers
     ELSE handlers' = [handlers EXCEPT ![h] =
            [pc |-> "awaiting",
             violations |-> getViolations(activeRules, message, searchOutcome = "none")]]
  /\ lastOp' = Op("other", << >>, NoReason)
  /\ UNCHANGED << engine, now, started, call, io >>

FinishAwaitsRereadsRuleset(h, sayOk, reactOk) ==
  /\ ~ Busy
  /\ handlers[h].pc = "awaiting"
  /\ IF (Len(handlers[h].violations) > 0 => sayOk) /\ reactOk
     THEN /\ addToViolationHistory(
               SelectSeq(handlers[h].violations, LAMBDA id : id \in activeRules))
          /\ handlers' = [handlers EXCEPT ![h].pc = "evaluating"]
          /\ lastOp' = Op("addToViolationHistory", << >>, NoReason)
     ELSE /\ UNCHANGED violationHistoryForThisRuleset
          /\ handlers' = [handlers EXCEPT ![h] = Idle]
          /\ lastOp' = Op("other", << >>, NoReason)
  /\ UNCHANGED << activeRules, lastRulesetChange, now, started, call, io >>

\* The awaits of the handler (index.ts lines 35-51): getViolations resolves,
\* say(...) is awaited when there are violations, then reactions.add.  When
\* one of the two posts rejects the handler ends there; otherwise
\* addToViolationHistory(violations) runs.
FinishAwaits(h, sayOk, reactOk) ==
  /\ ~ Busy
  /\ handlers[h].pc = "awaiting"
  /\ IF (Len(handlers[h].violations) > 0 => sayOk) /\ reactOk
     THEN /\ addToViolationHistory(handlers[h].violations)
          /\ handlers' = [handlers EXCEPT ![h].pc = "evaluating"]
          /\ lastOp' = Op("addToViolationHistory", << >>, NoReason)
     ELSE /\ UNCHANGED violationHistoryForThisRuleset
          /\ handlers' = [handlers EXCEPT ![h] = Idle]
          /\ lastOp' = Op("other", << >>, NoReason)
  /\ UNCHANGED << activeRules, lastRulesetChange, now, started, call, io >>

\* index.ts line 54: evaluateChange(app), right after addToViolationHistory
HandlerEvaluateChange(h) ==
  /\ handlers[h].pc = "evaluating"
  /\ evaluateChange
  /\ handlers' = [handlers EXCEPT ![h] = Idle]
  /\ UNCHANGED << now, started, call, io >>

\* index.ts line 57: setInterval(evaluateChange, ...)
Tick ==
  /\ started /\ ~ Busy
  /\ evaluateChange
  /\ UNCHANGED << now, started, handlers, call, io >>

\* Time passes.
Advance ==
  /\ started /\ ~ Busy
  /\ now < MaxNow
  /\ now' = now + 1
  /\ lastOp' = Op("other", << >>, NoReason)
  /\ UNCHANGED << engine, started, handlers, call, io >>

Next ==
  \/ InitializeRules
  \/ \E h \in Handlers, message \in Messages :
       \E searchOutcome \in searchOutcomes(message) :
         ReceiveMessage(h, message, searchOutcome)
  \/ \E h \in Handlers, sayOk, reactOk \in BOOLEAN : FinishAwaits(h, sayOk, reactOk)
  \/ \E h \in Handlers : HandlerEvaluateChange(h)
  \/ Tick
  \/ Advance

Spec == Init /\ [][Next]_vars

----------------------------------------------------------------------------
(* The search functions called on their own, for every valid ruleset       *)

CallInit ==
  /\ activeRules = {}
  /\ violationHistoryForThisRuleset = << >>
  /\ now = 0
  /\ lastRulesetChange = now
  /\ started = FALSE
  /\ handlers = [h \in Handlers |-> Idle]
  /\ lastOp = Op("load", << >>, NoReason)
  /\ call \in { [NoCall EXCEPT !.input = r] : r \in ValidRulesets }
  /\ io = IoInit

CallMakeEasierRuleset ==
  /\ call.fn = "none"
  /\ \E result \in makeEasierTable[call.input] :
       call' = [call EXCEPT !.fn = "makeEasierRuleset", !.result = result]
  /\ UNCHANGED << engine, now, started, handlers, lastOp, io >>

CallMakeHarderRuleset ==
  /\ call.fn = "none"
  /\ \E result \in makeHarderTable[call.input] :
       call' = [call EXCEPT !.fn = "makeHarderRuleset", !.result = result]
  /\ UNCHANGED << engine, now, started, handlers, lastOp, io >>

CallNext ==
  \/ CallMakeEasierRuleset
  \/ CallMakeHarderRuleset

CallSpec == CallInit /\ [][CallNext]_vars

----------------------------------------------------------------------------
(* makeEasierRuleset and makeHarderRuleset with the candidates in view     *)

\* The ruleset passed in, after the mutationIterations calls of mutateRuleset
\* that built mutatedRulesets.
RECURSIVE inputAfterCalls(_, _, _)
inputAfterCalls(currentRuleset, mutatedRulesets, n) ==
  IF n = 0 THEN currentRuleset
  ELSE argumentAfterMutate(inputAfterCalls(currentRuleset, mutatedRulesets, n - 1),
                           mutatedRulesets[n])

PickMakeEasierRuleset ==
  /\ call.fn = "none"
  /\ \E mutatedRulesets \in mutatedRulesetArrays(call.input) :
       \E result \in closestEasier(call.input, mutatedRulesets) :
         call' = [call EXCEPT !.fn = "makeEasierRuleset", !.result = result,
                              !.candidates = mutatedRulesets,
                              !.inputAfter = inputAfterCalls(call.input, mutatedRulesets,
                                                             Len(mutatedRulesets))]
  /\ UNCHANGED << engine, now, started, handlers, lastOp, io >>

PickMakeHarderRuleset ==
  /\ call.fn = "none"
  /\ \E mutatedRulesets \in mutatedRulesetArrays(call.input) :
       \E result \in closestHarder(call.input, mutatedRulesets) :
         call' = [call EXCEPT !.fn = "makeHarderRuleset", !.result = result,
                              !.candidates = mutatedRulesets,
                              !.inputAfter = inputAfterCalls(call.input, mutatedRulesets,
                                                             Len(mutatedRulesets))]
  /\ UNCHANGED << engine, now, started, handlers, lastOp, io >>

PickNext ==
  \/ PickMakeEasierRuleset
  \/ PickMakeHarderRuleset

PickSpec == CallInit /\ [][PickNext]_vars

----------------------------------------------------------------------------
(* randomValidRuleset and mutateRuleset called on their own                *)

SearchRandomValidRuleset(catalog, num) ==
  /\ call.fn = "none"
  /\ \E outcome \in randomValidRulesetIn(catalog, num, 2, 0) :
       call' = [call EXCEPT !.fn = "randomValidRuleset", !.catalog = catalog,
                            !.args = <<num, 2>>, !.outcome = outcome]
  /\ UNCHANGED << engine, now, started, handlers, lastOp, io >>

SearchMutateRuleset(currentRuleset, amount) ==
  /\ call.fn = "none"
  /\ \E newRuleset \in mutateRuleset(currentRuleset, amount) :
       call' = [call EXCEPT !.fn = "mutateRuleset", !.input = currentRuleset,
                            !.args = <<amount>>,
                            !.result = [success |-> TRUE, ruleset |-> newRuleset],
                            !.inputAfter = argumentAfterMutate(currentRuleset, newRuleset)]
  /\ UNCHANGED << engine, now, started, handlers, lastOp, io >>

SearchNext ==
  \/ \E catalog \in Catalogs, num \in 0..(2 * MaxTarget) :
       SearchRandomValidRuleset(catalog, num)
  \/ \E currentRuleset \in ValidRulesets, amount \in 1..MaxAmount :
       SearchMutateRuleset(currentRuleset, amount)

SearchSpec == Init /\ [][SearchNext]_vars

----------------------------------------------------------------------------
(* mutateRuleset statement by statement.  call.input is currentRuleset,    *)
(* call.args the amount, call.outcome the loop counter i, oldRuleset,      *)
(* newRuleset, whether the do-while is repeating (the last flip was        *)
(* rejected) and whether the function has returned.                        *)

MutateInit ==
  /\ activeRules = {}
  /\ violationHistoryForThisRuleset = << >>
  /\ now = 0
  /\ lastRulesetChange = now
  /\ started = FALSE
  /\ handlers = [h \in Handlers |-> Idle]
  /\ lastOp = Op("load", << >>, NoReason)
  /\ call \in { [NoCall EXCEPT !.fn = "mutateRuleset", !.input = currentRuleset,
                               !.args = <<amount>>,
                               !.outcome = [i |-> 0, oldRuleset |-> currentRuleset,
                                            newRuleset |-> currentRuleset,
                                            repeating |-> FALSE, returned |-> FALSE]]
                : currentRuleset \in ValidRulesets, amount \in 0..MaxAmount }
  /\ io = IoInit

\* Line 171 without the copy: the flip is applied to what the rejected
\* attempt left.
doBodyStartKeepsFlip(oldRuleset, newRuleset) == newRuleset

\* Line 171, newRuleset = new Set(oldRuleset): the set the flip is applied to
doBodyStart(oldRuleset, newRuleset) == oldRuleset

whileConditionNotNegated(newRuleset) == isValidRuleset(newRuleset)

\* Line 178, while(!isValidRuleset(newRuleset)): the do-while repeats
whileCondition(newRuleset) == ~ isValidRuleset(newRuleset)

\* One pass of the do-while body (lines 171-178) with the rule drawn; when the
\* pass is the first of its for-iteration, line 169 (oldRuleset = new
\* Set(newRuleset)) runs before it, and when the loop exits, i++ after it.
MutateToggle(ruleToChange) ==
  /\ call.fn = "mutateRuleset"
  /\ ~ call.outcome.returned
  /\ call.outcome.i < call.args[1]
  /\ LET oldRuleset == IF call.outcome.repeating THEN call.outcome.oldRuleset
                       ELSE call.outcome.newRuleset
         newRuleset == Toggle(doBodyStart(oldRuleset, call.outcome.newRuleset),
                              ruleToChange)
         repeating  == whileCondition(newRuleset)
     IN  call' = [call EXCEPT !.outcome =
                    [i |-> IF repeating THEN call.outcome.i ELSE call.outcome.i + 1,
                     oldRuleset |-> oldRuleset, newRuleset |-> newRuleset,
                     repeating |-> repeating, returned |-> FALSE]]
  /\ UNCHANGED << engine, now, started, handlers, lastOp, io >>

\* Line 180: return newRuleset
MutateReturn ==
  /\ call.fn = "mutateRuleset"
  /\ ~ call.outcome.returned
  /\ call.outcome.i >= call.args[1]
  /\ call' = [call EXCEPT !.outcome.returned = TRUE,
                          !.result = [success |-> TRUE,
                                      ruleset |-> call.outcome.newRuleset]]
  /\ UNCHANGED << engine, now, started, handlers, lastOp, io >>

MutateNext ==
  \/ \E ruleToChange \in RuleIds : MutateToggle(ruleToChange)
  \/ MutateReturn

MutateSpec == MutateInit /\ [][MutateNext]_vars

\* Math.random() is fair: as long as the loop runs every rule is drawn again
\* and again.
MutateFairSpec ==
  /\ MutateInit /\ [][MutateNext]_vars
  /\ \A ruleToChange \in RuleIds : WF_vars(MutateToggle(ruleToChange))
  /\ WF_vars(MutateReturn)

----------------------------------------------------------------------------
(* getViolations called on its own, for every valid ruleset as active set  *)

ViolationsGetViolations(active, message, searchOutcome) ==
  /\ call.fn = "none"
  /\ call' = [call EXCEPT !.fn = "getViolations", !.input = active,
                          !.args = <<message, searchOutcome>>,
                          !.outcome = getViolationsSettles(active, message, searchOutcome)]
  /\ UNCHANGED << engine, now, started, handlers, lastOp, io >>

ViolationsNext ==
  \E active \in ValidRulesets, message \in CheckMessages,
     searchOutcome \in {"found", "none", "fails"} :
    ViolationsGetViolations(active, message, searchOutcome)

ViolationsSpec == Init /\ [][ViolationsNext]_vars

----------------------------------------------------------------------------
(* calculateDifficulty and isValidRuleset called on their own, for every   *)
(* set of rule ids of the catalog, valid as a ruleset or not               *)

\* calculateDifficulty(A), calculateDifficulty(B) and calculateDifficulty of
\* their union, for disjoint A and B
RulesetCalculateDifficulty(A, B) ==
  /\ call.fn = "none"
  /\ A \cap B = {}
  /\ call' = [call EXCEPT !.fn = "calculateDifficulty", !.args = <<A, B>>,
                          !.outcome = [a     |-> calculateDifficulty(A),
                                       b     |-> calculateDifficulty(B),
                                       union |-> calculateDifficulty(A \cup B)]]
  /\ UNCHANGED << engine, now, started, handlers, lastOp, io >>

\* isValidRuleset(ruleset), and isValidRuleset of each of its subsets
RulesetIsValidRuleset(ruleset) ==
  /\ call.fn = "none"
  /\ call' = [call EXCEPT !.fn = "isValidRuleset", !.input = ruleset,
                          !.outcome = [valid |-> isValidRuleset(ruleset),
                                       validSubsets |->
                                         { s \in SUBSET ruleset : isValidRuleset(s) }]]
  /\ UNCHANGED << engine, now, started, handlers, lastOp, io >>

RulesetNext ==
  \/ /\ call.fn = "none"
     /\ \E A \in SUBSET RuleIds :
          \E B \in SUBSET (RuleIds \ A) : RulesetCalculateDifficulty(A, B)
  \/ /\ call.fn = "none"
     /\ \E ruleset \in SUBSET RuleIds : RulesetIsValidRuleset(ruleset)

RulesetSpec == Init /\ [][RulesetNext]_vars

----------------------------------------------------------------------------
(* getFailRatio on its own and inside evaluateChange, from histories of up *)
(* to MaxRecords records.  (Records pile up while less than                *)
(* minimumTimeBetweenChanges has elapsed: evaluateChange returns at its    *)
(* first gate then, whatever the length of the history.)                   *)

MaxRecords == 10

\* Histories of a ruleset {"all-lowercase"}: each record holds no violation
\* or the violation of that rule.
Histories ==
  UNION { [1..n -> { [violations |-> << >>], [violations |-> <<"all-lowercase">>] }]
          : n \in 0..MaxRecords }

FailRatioInit ==
  /\ activeRules = {"all-lowercase"}
  /\ violationHistoryForThisRuleset \in Histories
  /\ lastRulesetChange = 0
  /\ now \in 0..MaxNow
  /\ started = TRUE
  /\ handlers = [h \in Handlers |-> Idle]
  /\ lastOp = Op("other", << >>, NoReason)
  /\ call = NoCall
  /\ io = IoInit

\* getFailRatio()
FailRatioGetFailRatio ==
  /\ call.fn = "none"
  /\ call' = [call EXCEPT !.fn = "getFailRatio",
                          !.args = << violationHistoryForThisRuleset >>,
                          !.outcome = [computed |-> TRUE, failRatio |-> getFailRatio]]
  /\ UNCHANGED << engine, now, started, handlers, lastOp, io >>

\* evaluateChange: line 372 calls getFailRatio when the four gates let the
\* run through and Math.random() < changeChance holds, and nowhere else.
\* The outcome tells whether the call was made and what it returned (num and
\* den are 0 when it was not made).
FailRatioEvaluateChange ==
  /\ call.fn = "none"
  /\ evaluateChange
  /\ call' = [call EXCEPT !.fn = "evaluateChange",
                          !.args = << violationHistoryForThisRuleset >>,
                          !.outcome =
                            IF lastOp'.draws # << >> /\ lastOp'.draws[1]
                            THEN [computed |-> TRUE, failRatio |-> getFailRatio]
                            ELSE [computed |-> FALSE,
                                  failRatio |-> [num |-> 0, den |-> 0]]]
  /\ UNCHANGED << now, started, handlers, io >>

FailRatioNext ==
  \/ FailRatioGetFailRatio
  \/ FailRatioEvaluateChange

FailRatioSpec == FailRatioInit /\ [][FailRatioNext]_vars

----------------------------------------------------------------------------
(* The engine on a catalog given as a value, without messages: the history *)
(* stays empty, so evaluateChange is decided by its time gates and, between *)
(* them, returns at the minimumSampleSize test.                            *)

CatalogInit ==
  /\ activeRules = {}
  /\ violationHistoryForThisRuleset = << >>
  /\ now = 0
  /\ lastRulesetChange = now
  /\ started = FALSE
  /\ handlers = [h \in Handlers |-> Idle]
  /\ lastOp = Op("load", << >>, NoReason)
  /\ call \in { [NoCall EXCEPT !.catalog = catalog] : catalog \in Catalogs }
  /\ io = IoInit

\* The ruleset full regeneration asks for:
\* randomValidRuleset((initialRoughDifficulty + calculateDifficulty(activeRules)) / 2)
regeneratedIn(catalog) ==
  randomValidRulesetIn(catalog,
    initialRoughDifficulty + calculateDifficultyIn(catalog, activeRules), 2, 0)

InitializeRulesIn ==
  /\ ~ started
  /\ \E outcome \in randomValidRulesetIn(call.catalog, initialRoughDifficulty, 1, 0) :
       updateRules(outcome.ruleset, ReasonInitial)
  /\ started' = TRUE
  /\ lastOp' = Op("initializeRules", << >>, ReasonInitial)
  /\ UNCHANGED << now, handlers, call, io >>

EvaluateChangeIn ==
  /\ started
  /\ violationHistoryForThisRuleset = << >>
  /\ LET timeSinceLastChange == now - lastRulesetChange
     IN  IF tooSoon(timeSinceLastChange)
         THEN /\ UNCHANGED engine
              /\ lastOp' = Op("evaluateChange", << >>, NoReason)
         ELSE IF tooLong(timeSinceLastChange)
         THEN \E outcome \in regeneratedIn(call.catalog) :
                /\ updateRules(outcome.ruleset, ReasonLongTime)
                /\ lastOp' = Op("evaluateChange", << >>, ReasonLongTime)
         ELSE IF tooFewMessages(Len(violationHistoryForThisRuleset))
         THEN /\ UNCHANGED engine
              /\ lastOp' = Op("evaluateChange", << >>, NoReason)
         ELSE FALSE
  /\ UNCHANGED << now, started, handlers, call, io >>

CatalogNext ==
  \/ InitializeRulesIn
  \/ EvaluateChangeIn
  \/ Advance

CatalogSpec == CatalogInit /\ [][CatalogNext]_vars

-----------------------------------------------------------------------------
(* The catalog build: conflicts.forEach pair by pair, then the start of    *)
(* the engine.  call.args holds the index of the next pair, call.outcome   *)
(* the conflictsWith array of each rule (by its index in `rules`) and the  *)
(* pairs console.error has reported.                                       *)

MaxPairs == 2

\* Pair lists over the ids of three rules A, B, C and an id Z that no rule
\* has: every list of at most MaxPairs pairs, in every order and direction,
\* with repeated pairs and pairs of a rule with itself.
PairLists ==
  LET pairs == { <<a, b>> : a, b \in {"A", "B", "C", "Z"} }
  IN  UNION { [1..n -> pairs] : n \in 0..MaxPairs }

smallCatalogs ==
  { [rules |-> << [id |-> "A", difficulty |-> 1], [id |-> "B", difficulty |-> 1],
                  [id |-> "C", difficulty |-> 1] >>,
     conflicts |-> ps] : ps \in PairLists }

BuildCatalogs == Catalogs \cup smallCatalogs

\* rules.find(rule => rule.id === id) in `catalog`: the index of the first
\* rule with that id, 0 (undefined) when there is none
findRuleIn(catalog, id) ==
  IF \E i \in DOMAIN catalog.rules : catalog.rules[i].id = id
  THEN CHOOSE i \in DOMAIN catalog.rules :
         /\ catalog.rules[i].id = id
         /\ \A j \in DOMAIN catalog.rules : catalog.rules[j].id = id => i <= j
  ELSE 0

BuildInit ==
  /\ activeRules = {}
  /\ violationHistoryForThisRuleset = << >>
  /\ now = 0
  /\ lastRulesetChange = now
  /\ started = FALSE
  /\ handlers = [h \in Handlers |-> Idle]
  /\ lastOp = Op("load", << >>, NoReason)
  /\ call \in { [NoCall EXCEPT !.fn = "conflicts.forEach", !.catalog = catalog,
                               !.args = <<1>>,
                               !.outcome = [conflictsWith |->
                                              [i \in DOMAIN catalog.rules |-> << >>],
                                            errors |-> << >>]]
                : catalog \in BuildCatalogs }
  /\ io = IoInit

\* Lines 132-135 with the first push only
pushConflictOneWay(built, rule1, rule2, rule1ID, rule2ID) ==
  [built EXCEPT ![rule1] = Append(@, rule2ID)]

\* Lines 132-135: rule1.conflictsWith.push(rule2ID), then
\* rule2.conflictsWith.push(rule1ID)
pushConflict(built, rule1, rule2, rule1ID, rule2ID) ==
  LET first == [built EXCEPT ![rule1] = Append(@, rule2ID)]
  IN  [first EXCEPT ![rule2] = Append(@, rule1ID)]

\* One call of the forEach callback (lines 124-136)
BuildResolveConflict ==
  /\ call.fn = "conflicts.forEach"
  /\ call.args[1] <= Len(call.catalog.conflicts)
  /\ LET rule1ID == call.catalog.conflicts[call.args[1]][1]
         rule2ID == call.catalog.conflicts[call.args[1]][2]
         rule1   == findRuleIn(call.catalog, rule1ID)
         rule2   == findRuleIn(call.catalog, rule2ID)
     IN  call' = [call EXCEPT
           !.args = << call.args[1] + 1 >>,
           !.outcome =
             IF rule1 = 0 \/ rule2 = 0
             THEN [@ EXCEPT !.errors = Append(@, <<rule1ID, rule2ID>>)]
             ELSE [@ EXCEPT !.conflictsWith =
                              pushConflict(@, rule1, rule2, rule1ID, rule2ID)]]
  /\ UNCHANGED << engine, now, started, handlers, lastOp, io >>

\* The forEach has returned.
Built == call.fn = "conflicts.forEach" /\ call.args[1] > Len(call.catalog.conflicts)

\* The module has loaded; index.ts line 16 calls initializeRules(app).
BuildInitializeRules ==
  /\ Built
  /\ InitializeRulesIn

BuildNext ==
  \/ BuildResolveConflict
  \/ BuildInitializeRules

BuildSpec == BuildInit /\ [][BuildNext]_vars

----------------------------------------------------------------------------
(* The event loop statement by statement: two message handlers and the     *)
(* timer callback as tasks.  A task runs from its start or from the        *)
(* resumption of an await to its next await or its end without another     *)
(* task running in between; here that stretch is taken one statement at a  *)
(* time.  `handlers` maps each task to its position and its locals.        *)

Tasks == {"timer", "handler1", "handler2"}

LoopHandlers == Tasks \ {"timer"}

LoopIdle ==
  [pc |-> "idle", violations |-> << >>,
   pending |-> [reason |-> NoReason, ruleset |-> {}], read |-> << >>]

\* The first replacement can be decided from the start on: the clock stands
\* at minimumTimeBetweenChanges or past maximumTimeBetweenChanges.
LoopInit ==
  /\ activeRules \in randomValidRuleset(initialRoughDifficulty, 1, 0)
  /\ violationHistoryForThisRuleset = << >>
  /\ lastRulesetChange = 0
  /\ now \in {minimumTimeBetweenChanges, maximumTimeBetweenChanges + 1}
  /\ started = TRUE
  /\ handlers = [t \in Tasks |-> LoopIdle]
  /\ lastOp = Op("initializeRules", << >>, ReasonInitial)
  /\ call = NoCall
  /\ io = IoInit

\* What a run of evaluateChange decides in the current state: the reason and
\* the ruleset it passes to updateRules, NoReason when it returns without.
evaluateChangeDecisions ==
  LET timeSinceLastChange == now - lastRulesetChange
      length == Len(violationHistoryForThisRuleset)
      none == { [reason |-> NoReason, ruleset |-> activeRules] }
      entirely(reason) ==
        { [reason |-> reason, ruleset |-> newRuleset] : newRuleset \in regenerated }
  IN
  IF tooSoon(timeSinceLastChange) THEN none
  ELSE IF tooLong(timeSinceLastChange) THEN entirely(ReasonLongTime)
  ELSE IF tooFewMessages(length) THEN none
  ELSE IF tooManyMessages(length) THEN entirely(ReasonManyMessages)
  ELSE UNION {
    IF changeDraw /\ failRatioTooHigh(messagesViolatingRules, length)
    THEN UNION { IF ~ newRuleset.success
                 THEN entirely(ReasonEasierFallback)
                 ELSE { [reason |-> ReasonEasier, ruleset |-> newRuleset.ruleset] }
                 : newRuleset \in makeEasierTable[activeRules] }
    ELSE IF changeDraw /\ failRatioTooLow(messagesViolatingRules, length)
    THEN UNION { IF ~ newRuleset.success
                 THEN entirely(ReasonHarderFallback)
                 ELSE { [reason |-> ReasonHarder, ruleset |-> newRuleset.ruleset] }
                 : newRuleset \in makeHarderTable[activeRules] }
    ELSE none \cup entirely(ReasonChance)
    : changeDraw \in BOOLEAN }

\* A task is between the statements of a synchronous stretch.
LoopNeverBusy == FALSE

LoopBusy == \E t \in Tasks : handlers[t].pc \notin {"idle", "awaiting"}

LoopInFlight == Cardinality({ t \in Tasks : handlers[t].pc # "idle" })

\* app.message up to the await of getViolations
LoopReceiveMessage(h, message, searchOutcome) ==
  /\ ~ LoopBusy
  /\ handlers[h].pc = "idle"
  /\ Len(violationHistoryForThisRuleset) + LoopInFlight < MaxHistory
  /\ LET settles == getViolationsSettles(activeRules, message, searchOutcome)
     IN  IF settles.returned
         THEN handlers' = [handlers EXCEPT ![h].pc = "awaiting",
                                           ![h].violations = settles.violations]
         ELSE handlers' = handlers
  /\ lastOp' = Op("other", << >>, NoReason)
  /\ UNCHANGED << engine, now, started, call, io >>

\* The handler resumes after its awaits and runs addToViolationHistory; when
\* say or reactions.add rejected it ends instead.
LoopResume(h, postsOk) ==
  /\ ~ LoopBusy
  /\ handlers[h].pc = "awaiting"
  /\ IF postsOk
     THEN /\ addToViolationHistory(handlers[h].violations)
          /\ handlers' = [handlers EXCEPT ![h].pc = "evaluateChange"]
          /\ lastOp' = Op("addToViolationHistory", << >>, NoReason)
     ELSE /\ UNCHANGED violationHistoryForThisRuleset
          /\ handlers' = [handlers EXCEPT ![h] = LoopIdle]
          /\ lastOp' = Op("other", << >>, NoReason)
  /\ UNCHANGED << activeRules, lastRulesetChange, now, started, call, io >>

\* The interval of setInterval(evaluateChange, ...) fires.
LoopTimerFires ==
  /\ ~ LoopBusy
  /\ handlers["timer"].pc = "idle"
  /\ handlers' = [handlers EXCEPT !["timer"].pc = "evaluateChange"]
  /\ lastOp' = Op("other", << >>, NoReason)
  /\ UNCHANGED << engine, now, started, call, io >>

\* evaluateChange up to its return or its call of updateRules; `read` keeps
\* what it read of the engine.
LoopDecide(t) ==
  /\ handlers[t].pc = "evaluateChange"
  /\ \E decision \in evaluateChangeDecisions :
       IF decision.reason = NoReason
       THEN /\ handlers' = [handlers EXCEPT ![t] = LoopIdle]
            /\ lastOp' = Op("evaluateChange", << >>, NoReason)
       ELSE /\ handlers' = [handlers EXCEPT ![t].pc = "clear",
                                             ![t].pending = decision,
                                             ![t].read = engine]
            /\ lastOp' = Op("other", << >>, NoReason)
  /\ UNCHANGED << engine, now, started, call, io >>

\* updateRules: activeRules.clear()
LoopClear(t) ==
  /\ handlers[t].pc = "clear"
  /\ activeRules' = {}
  /\ handlers' = [handlers EXCEPT ![t].pc = "add"]
  /\ lastOp' = Op("other", << >>, NoReason)
  /\ UNCHANGED << violationHistoryForThisRuleset, lastRulesetChange, now, started, call, io >>

\* updateRules: newRuleset.forEach(rule => activeRules.add(rule))
LoopAdd(t) ==
  /\ handlers[t].pc = "add"
  /\ activeRules' = activeRules \cup handlers[t].pending.ruleset
  /\ handlers' = [handlers EXCEPT ![t].pc = "history"]
  /\ lastOp' = Op("other", << >>, NoReason)
  /\ UNCHANGED << violationHistoryForThisRuleset, lastRulesetChange, now, started, call, io >>

\* updateRules: violationHistoryForThisRuleset = []
LoopResetHistory(t) ==
  /\ handlers[t].pc = "history"
  /\ violationHistoryForThisRuleset' = << >>
  /\ handlers' = [handlers EXCEPT ![t].pc = "stamp"]
  /\ lastOp' = Op("other", << >>, NoReason)
  /\ UNCHANGED << activeRules, lastRulesetChange, now, started, call, io >>

\* updateRules: lastRulesetChange = Date.now(); the stretch ends at the first
\* await of updateRules (or its return).
LoopStamp(t) ==
  /\ handlers[t].pc = "stamp"
  /\ lastRulesetChange' = now
  /\ lastOp' = Op("evaluateChange", << >>, handlers[t].pending.reason)
  /\ handlers' = [handlers EXCEPT ![t] = LoopIdle]
  /\ UNCHANGED << activeRules, violationHistoryForThisRuleset, now, started, call, io >>

LoopNext ==
  \/ \E h \in LoopHandlers, message \in Messages :
       \E searchOutcome \in searchOutcomes(message) :
         LoopReceiveMessage(h, message, searchOutcome)
  \/ \E h \in LoopHandlers, postsOk \in BOOLEAN : LoopResume(h, postsOk)
  \/ LoopTimerFires
  \/ \E t \in Tasks : LoopDecide(t)
  \/ \E t \in Tasks : LoopClear(t)
  \/ \E t \in Tasks : LoopAdd(t)
  \/ \E t \in Tasks : LoopResetHistory(t)
  \/ \E t \in Tasks : LoopStamp(t)

LoopSpec == LoopInit /\ [][LoopNext]_vars

-----------------------------------------------------------------------------
(* updateRules past the state swap: the announcement.  The engine above    *)
(* leaves io alone; here every call of updateRules runs on to its first    *)
(* await with the `app` its caller passed.  index.ts passes the App from   *)
(* initializeRules(app) and from the message handler; setInterval calls    *)
(* evaluateChange with no argument, so `app` is undefined there.  The      *)
(* Slack calls that are awaited with an App are taken to resolve.          *)

\* updateRules lines 251-265, after the swap.  Without CHANNEL_ID or with
\* QUIET === "full" it returns before touching app.  Otherwise app.client is
\* read: with app undefined that throws a TypeError inside the async
\* function, the promise updateRules returned rejects and no caller awaits or
\* catches it.  What an unhandled rejection does depends on the Node version
\* and flags: the process exits (the default from Node 15 on) or only warns.
\* With an App, chat.postMessage is called (not awaited) when QUIET is unset.
updateRulesTail(app, reason) ==
  IF ~ io.CHANNEL_ID \/ io.QUIET = "full" THEN io' = io
  ELSE IF app = "undefined"
  THEN \E exits \in BOOLEAN : io' = [io EXCEPT !.alive = ~ exits]
  ELSE io' = [io EXCEPT !.posted =
                IF io.QUIET = "unset"
                THEN [reason |-> reason, ruleset |-> activeRules']
                ELSE @]

\* index.ts line 16: initializeRules(app)
AnnounceInitializeRules ==
  /\ io.alive
  /\ ~ started
  /\ call = NoCall
  /\ \E newRuleset \in randomValidRuleset(initialRoughDifficulty, 1, 0) :
       updateRules(newRuleset, ReasonInitial)
  /\ started' = TRUE
  /\ lastOp' = Op("initializeRules", << >>, ReasonInitial)
  /\ updateRulesTail("app", ReasonInitial)
  /\ UNCHANGED << now, handlers, call >>

\* evaluateChange(app): each of its branches that replaces the ruleset calls
\* updateRules(newRuleset, reason, app)
evaluateChangeWith(app) ==
  /\ evaluateChange
  /\ IF lastOp'.reason # NoReason
     THEN updateRulesTail(app, lastOp'.reason)
     ELSE io' = io

\* index.ts line 54: evaluateChange(app)
AnnounceHandlerEvaluateChange(h) ==
  /\ io.alive
  /\ handlers[h].pc = "evaluating"
  /\ evaluateChangeWith("app")
  /\ handlers' = [handlers EXCEPT ![h] = Idle]
  /\ UNCHANGED << now, started, call >>

\* index.ts line 57: the timer calls evaluateChange() with no argument
AnnounceTick ==
  /\ io.alive
  /\ started /\ ~ Busy
  /\ evaluateChangeWith("undefined")
  /\ UNCHANGED << now, started, handlers, call >>

\* index.ts lines 29-53 when every await of the handler settles before
\* anything else runs: the message passes the filters, getViolations resolves,
\* say and reactions.add resolve, and addToViolationHistory(violations) runs.
AnnounceHandleMessage(h, message, searchOutcome) ==
  /\ io.alive
  /\ started /\ ~ Busy
  /\ handlers[h].pc = "idle"
  /\ Len(violationHistoryForThisRuleset) < MaxHistory
  /\ ~ ("unique-messages" \in activeRules /\ searchOutcome = "fails")
  /\ addToViolationHistory(getViolations(activeRules, message, searchOutcome = "none"))
  /\ handlers' = [handlers EXCEPT ![h].pc = "evaluating"]
  /\ lastOp' = Op("addToViolationHistory", << >>, NoReason)
  /\ UNCHANGED << activeRules, lastRulesetChange, now, started, call, io >>

\* Time passes (whether the process runs or not).
AnnounceNext ==
  \/ AnnounceInitializeRules
  \/ \E h \in Handlers, message \in Messages :
       \E searchOutcome \in searchOutcomes(message) :
         AnnounceHandleMessage(h, message, searchOutcome)
  \/ \E h \in Handlers : AnnounceHandlerEvaluateChange(h)
  \/ AnnounceTick
  \/ Advance

AnnounceSpec == Init /\ [][AnnounceNext]_vars

\* No message ever arrives: only the timer and the clock.  The timer of
\* setInterval keeps firing as long as the process runs.
TickNext ==
  \/ AnnounceInitializeRules
  \/ AnnounceTick
  \/ Advance

TickSpec == Init /\ [][TickNext]_vars /\ WF_vars(AnnounceTick)

----------------------------------------------------------------------------
(* Properties                                                              *)

elapsed == now - lastRulesetChange

\* The step is a run of evaluateChange, from a handler or from the timer.
EvaluateChangeStep == lastOp'.op = "evaluateChange"

\* The step made a replacement (called updateRules).
Replaced == lastOp'.reason # NoReason

\* The time gates of evaluateChange pass in the state the step starts from.
TimeGatesPass ==
  /\ elapsed >= minimumTimeBetweenChanges
  /\ elapsed <= maximumTimeBetweenChanges

SampleGatesPass ==
  /\ Len(violationHistoryForThisRuleset) >= minimumSampleSize
  /\ Len(violationHistoryForThisRuleset) <= maximumMessagesUntilChange

\* The changeChance draw of the step was made and succeeded.
ChangeDrawSucceeds == Len(lastOp'.draws) >= 1 /\ lastOp'.draws[1]

RatioAboveBand ==
  messagesViolatingRules * maxFailRatioDen
    > maxFailRatioNum * Len(violationHistoryForThisRuleset)

RatioBelowBand ==
  messagesViolatingRules * minFailRatioDen
    < minFailRatioNum * Len(violationHistoryForThisRuleset)

RatioInBand == ~ RatioAboveBand /\ ~ RatioBelowBand

NoConflictingPair(ruleset) ==
  \A a, b \in ruleset :
    ~ \E n \in DOMAIN conflicts : conflicts[n] = <<a, b>> \/ conflicts[n] = <<b, a>>

\* C1: once initializeRules has run, the active ruleset never holds two rules
\* that conflict with each other.
C1_ActiveRulesetValid == started => NoConflictingPair(activeRules)

C1_Witness ==
  /\ started
  /\ lastOp.reason \in {ReasonEasier, ReasonHarder}
  /\ Cardinality(activeRules) >= 3

\* C2: in the state right after a call of updateRules the history is empty and
\* the last-change timestamp is the current time (elapsed time 0).
C2_ReplacementResets ==
  lastOp.reason # NoReason =>
    /\ violationHistoryForThisRuleset = << >>
    /\ lastRulesetChange = now
    /\ elapsed = 0

C2_Witness ==
  /\ lastOp.reason = ReasonEasierFallback
  /\ now > 0
  /\ violationHistoryForThisRuleset = << >>

\* C3: a step changes the history only by appending one record at its end
\* (addToViolationHistory) or by emptying it in a replacement; a run of
\* evaluateChange without replacement leaves it as it is, and it is never
\* emptied without a replacement.
C3_HistoryAppendOrClear ==
  [][ /\ \/ violationHistoryForThisRuleset' = violationHistoryForThisRuleset
         \/ /\ lastOp'.op = "addToViolationHistory"
            /\ Len(violationHistoryForThisRuleset')
                 = Len(violationHistoryForThisRuleset) + 1
            /\ SubSeq(violationHistoryForThisRuleset', 1,
                      Len(violationHistoryForThisRuleset))
                 = violationHistoryForThisRuleset
         \/ /\ Replaced
            /\ violationHistoryForThisRuleset' = << >>
      /\ (lastOp'.op = "addToViolationHistory" =>
            Len(violationHistoryForThisRuleset')
              = Len(violationHistoryForThisRuleset) + 1)
      /\ (Replaced => violationHistoryForThisRuleset' = << >>)
      /\ (EvaluateChangeStep /\ ~ Replaced =>
            violationHistoryForThisRuleset' = violationHistoryForThisRuleset)
      /\ (violationHistoryForThisRuleset # << >>
            /\ violationHistoryForThisRuleset' = << >> => Replaced)
    ]_vars

C3_Witness ==
  /\ lastOp.op = "addToViolationHistory"
  /\ Len(violationHistoryForThisRuleset) >= 2
  /\ violationHistoryForThisRuleset[1] # violationHistoryForThisRuleset[2]

\* C4: a run of evaluateChange that starts with elapsed < minimumTimeBetweenChanges
\* makes no replacement: active ruleset, history and clock stay as they are.
C4_TooSoonNoChange ==
  [][ EvaluateChangeStep /\ elapsed < minimumTimeBetweenChanges =>
        ~ Replaced /\ UNCHANGED engine ]_vars

C4_Witness ==
  /\ lastOp.op = "evaluateChange"
  /\ elapsed = minimumTimeBetweenChanges - 1
  /\ Len(violationHistoryForThisRuleset) >= minimumSampleSize
  /\ messagesViolatingRules = Len(violationHistoryForThisRuleset)

\* C5: a run of evaluateChange that starts with elapsed > maximumTimeBetweenChanges
\* always makes a replacement, by a regenerated ruleset, and leaves the
\* history empty.
C5_TooLongAlwaysReplaces ==
  [][ EvaluateChangeStep /\ elapsed > maximumTimeBetweenChanges =>
        /\ lastOp'.reason = ReasonLongTime
        /\ activeRules' \in regenerated
        /\ violationHistoryForThisRuleset' = << >>
        /\ lastRulesetChange' = now ]_vars

C5_Witness ==
  /\ lastOp.op = "evaluateChange"
  /\ lastOp.reason = ReasonLongTime
  /\ now = maximumTimeBetweenChanges + 1

\* C6 as stated: with the time and sample gates passed, the changeChance draw
\* successful and the fail ratio inside the band, evaluateChange makes no
\* replacement at all.
C6_InBandNoReplacement ==
  [][ EvaluateChangeStep /\ TimeGatesPass /\ SampleGatesPass
        /\ ChangeDrawSucceeds /\ RatioInBand =>
        ~ Replaced /\ UNCHANGED engine ]_vars

\* C6 amended: in that case evaluateChange makes no easier or harder
\* replacement; it goes on to the completeChangeChance draw and replaces the
\* ruleset by a regenerated one ("by chance") exactly when that draw
\* succeeds, and changes nothing when it fails.
C6_InBandOnlyChanceReplacement ==
  [][ EvaluateChangeStep /\ TimeGatesPass /\ SampleGatesPass
        /\ ChangeDrawSucceeds /\ RatioInBand =>
        /\ Len(lastOp'.draws) = 2
        /\ IF lastOp'.draws[2]
           THEN /\ lastOp'.reason = ReasonChance
                /\ activeRules' \in regenerated
                /\ violationHistoryForThisRuleset' = << >>
           ELSE ~ Replaced /\ UNCHANGED engine ]_vars

C6_Witness ==
  /\ lastOp.op = "evaluateChange"
  /\ lastOp.draws = <<TRUE, TRUE>>
  /\ lastOp.reason = ReasonChance

\* C7: with the gates passed and the changeChance draw successful, a fail
\* ratio above the band always ends in a replacement, by a ruleset
\* makeEasierRuleset returned with success or else by a regenerated one; a
\* ratio below the band likewise with makeHarderRuleset.
C7_OutOfBandAlwaysReplaces ==
  [][ EvaluateChangeStep /\ TimeGatesPass /\ SampleGatesPass /\ ChangeDrawSucceeds =>
        /\ RatioAboveBand =>
             /\ violationHistoryForThisRuleset' = << >>
             /\ \/ /\ lastOp'.reason = ReasonEasier
                   /\ [success |-> TRUE, ruleset |-> activeRules']
                        \in makeEasierTable[activeRules]
                \/ /\ lastOp'.reason = ReasonEasierFallback
                   /\ [success |-> FALSE, ruleset |-> activeRules]
                        \in makeEasierTable[activeRules]
                   /\ activeRules' \in regenerated
        /\ RatioBelowBand =>
             /\ violationHistoryForThisRuleset' = << >>
             /\ \/ /\ lastOp'.reason = ReasonHarder
                   /\ [success |-> TRUE, ruleset |-> activeRules']
                        \in makeHarderTable[activeRules]
                \/ /\ lastOp'.reason = ReasonHarderFallback
                   /\ [success |-> FALSE, ruleset |-> activeRules]
                        \in makeHarderTable[activeRules]
                   /\ activeRules' \in regenerated ]_vars

C7_Witness ==
  /\ lastOp.op = "evaluateChange"
  /\ lastOp.draws = <<TRUE>>
  /\ lastOp.reason = ReasonHarderFallback

\* C8: with the time gates passed and fewer than minimumSampleSize records in
\* the history, evaluateChange makes no replacement.
C8_TooFewMessagesNoChange ==
  [][ EvaluateChangeStep /\ TimeGatesPass
        /\ Len(violationHistoryForThisRuleset) < minimumSampleSize =>
        ~ Replaced /\ UNCHANGED engine /\ lastOp'.draws = << >> ]_vars

C8_Witness ==
  /\ lastOp.op = "evaluateChange"
  /\ lastOp.reason = NoReason
  /\ elapsed >= minimumTimeBetweenChanges
  /\ elapsed <= maximumTimeBetweenChanges
  /\ Len(violationHistoryForThisRuleset) = minimumSampleSize - 1
  /\ messagesViolatingRules = Len(violationHistoryForThisRuleset)

\* C9: with the time gates passed and more than maximumMessagesUntilChange
\* records in the history, evaluateChange always replaces the ruleset by a
\* regenerated one, without making a random draw.
C9_TooManyMessagesRegenerates ==
  [][ EvaluateChangeStep /\ TimeGatesPass
        /\ Len(violationHistoryForThisRuleset) > maximumMessagesUntilChange =>
        /\ lastOp'.reason = ReasonManyMessages
        /\ lastOp'.draws = << >>
        /\ activeRules' \in regenerated
        /\ violationHistoryForThisRuleset' = << >> ]_vars

C9_Witness ==
  /\ lastOp.op = "evaluateChange"
  /\ lastOp.reason = ReasonManyMessages
  /\ lastOp.draws = << >>

\* C10: for every valid ruleset R, makeEasierRuleset(R) reports success=false
\* or returns a ruleset without conflicting pair and of strictly lower
\* difficulty than R; makeHarderRuleset(R) likewise with strictly higher
\* difficulty.
C10_EasierIsEasierHarderIsHarder ==
  /\ call.fn = "makeEasierRuleset" /\ call.result.success =>
       /\ NoConflictingPair(call.result.ruleset)
       /\ calculateDifficulty(call.result.ruleset) < calculateDifficulty(call.input)
  /\ call.fn = "makeHarderRuleset" /\ call.result.success =>
       /\ NoConflictingPair(call.result.ruleset)
       /\ calculateDifficulty(call.result.ruleset) > calculateDifficulty(call.input)

C10_Witness ==
  /\ call.fn = "makeEasierRuleset"
  /\ call.result.success
  /\ Cardinality(call.input) >= 2
  /\ calculateDifficulty(call.result.ruleset) = calculateDifficulty(call.input) - 1

\* The candidates of the call that qualify: strictly easier than the ruleset
\* passed in for makeEasierRuleset, strictly harder for makeHarderRuleset.
Qualifies(ruleset) ==
  IF call.fn = "makeEasierRuleset"
  THEN calculateDifficulty(ruleset) < calculateDifficulty(call.input)
  ELSE calculateDifficulty(ruleset) > calculateDifficulty(call.input)

Gap(ruleset) ==
  LET d == calculateDifficulty(ruleset) - calculateDifficulty(call.input)
  IN  IF d < 0 THEN 0 - d ELSE d

\* C11: when some candidate of mutatedRulesets qualifies, the ruleset returned
\* is a qualifying candidate and no qualifying candidate has a smaller
\* absolute difficulty gap to the current ruleset.
C11_ReturnsClosestCandidate ==
  call.fn \in {"makeEasierRuleset", "makeHarderRuleset"} /\ call.candidates # << >>
    /\ (\E i \in DOMAIN call.candidates : Qualifies(call.candidates[i])) =>
      /\ call.result.success
      /\ \E i \in DOMAIN call.candidates : call.candidates[i] = call.result.ruleset
      /\ \A i \in DOMAIN call.candidates :
           Qualifies(call.candidates[i]) =>
             Gap(call.result.ruleset) <= Gap(call.candidates[i])

\* C12: when no candidate of mutatedRulesets qualifies, the call returns
\* success=false with the ruleset passed in, and the ruleset passed in has
\* the same members after the call as before it.
C12_NoCandidateKeepsCurrent ==
  call.fn \in {"makeEasierRuleset", "makeHarderRuleset"} /\ call.candidates # << >>
    /\ (\A i \in DOMAIN call.candidates : ~ Qualifies(call.candidates[i])) =>
      /\ call.result = [success |-> FALSE, ruleset |-> call.input]
      /\ call.inputAfter = call.input

C12_Witness ==
  /\ call.fn = "makeEasierRuleset"
  /\ call.input # {}
  /\ call.candidates # << >>
  /\ \A i \in DOMAIN call.candidates :
       calculateDifficulty(call.candidates[i]) > calculateDifficulty(call.input)
  /\ ~ call.result.success
  /\ call.inputAfter = call.input

NoConflictingPairIn(catalog, ruleset) ==
  \A a, b \in ruleset :
    ~ \E n \in DOMAIN catalog.conflicts :
        catalog.conflicts[n] = <<a, b>> \/ catalog.conflicts[n] = <<b, a>>

\* The call returned by randomValidRuleset(target) on `catalog`.
RandomValidReturned(catalog) ==
  call.fn = "randomValidRuleset" /\ call.catalog = catalog /\ call.outcome.returned

\* difficulty of the ruleset returned >= target (args[1] / args[2])
ReachesTarget(ruleset) ==
  calculateDifficultyIn(call.catalog, ruleset) * call.args[2] >= call.args[1]

\* C13: every ruleset randomValidRuleset returns, for every target, has no
\* conflicting pair; every ruleset mutateRuleset returns for a valid ruleset
\* and an amount k >= 1 has no conflicting pair; in the two-rule catalog
\* randomValidRuleset(2) never returns {A, B} and its result never has a
\* difficulty above 1.
C13_SearchResultsValid ==
  /\ call.fn = "randomValidRuleset" /\ call.outcome.returned =>
       NoConflictingPairIn(call.catalog, call.outcome.ruleset)
  /\ call.fn = "mutateRuleset" =>
       NoConflictingPair(call.result.ruleset)
  /\ RandomValidReturned(exampleCatalog) /\ call.args = <<4, 2>> =>
       /\ call.outcome.ruleset # {"A", "B"}
       /\ calculateDifficultyIn(exampleCatalog, call.outcome.ruleset) <= 1

C13_Witness ==
  /\ RandomValidReturned(exampleCatalog)
  /\ call.args = <<4, 2>>
  /\ call.outcome.ruleset = {"B"}

\* C14: a ruleset returned by randomValidRuleset(target) has difficulty >=
\* target or is maximal (every rule outside it conflicts with it); and when
\* its difficulty is >= target, the ruleset without the rule added last has a
\* difficulty strictly below target.
C14_StopsAtTargetOrMaximal ==
  call.fn = "randomValidRuleset" /\ call.outcome.returned =>
    LET ruleset == call.outcome.ruleset
        added   == call.outcome.added
    IN  /\ \/ ReachesTarget(ruleset)
           \/ \A id \in idsOf(call.catalog) \ ruleset :
                ~ NoConflictingPairIn(call.catalog, ruleset \cup {id})
        /\ ReachesTarget(ruleset) /\ added # << >> =>
             ~ ReachesTarget(Range(SubSeq(added, 1, Len(added) - 1)))

C14_Witness ==
  /\ RandomValidReturned(sourceCatalog)
  /\ call.args = <<12, 2>>
  /\ calculateDifficultyIn(sourceCatalog, call.outcome.ruleset) = 10
  /\ Len(call.outcome.added) = 3

\* C15: randomValidRuleset never returns an empty ruleset to its caller.
C15_NeverReturnsEmpty ==
  call.fn = "randomValidRuleset" =>
    ~ (call.outcome.returned /\ call.outcome.ruleset = {})

\* C16: a run of evaluateChange that regenerates the ruleset entirely while
\* the search can give no nonempty ruleset keeps the active ruleset as it is
\* and makes no replacement: it does not install an empty ruleset.
C16_ExhaustedSearchKeepsRuleset ==
  [][ EvaluateChangeStep /\ elapsed > maximumTimeBetweenChanges
        /\ (\A outcome \in regeneratedIn(call.catalog) : outcome.ruleset = {}) =>
        ~ Replaced /\ UNCHANGED engine ]_vars

\* The check of the active rule `id` failed, returned true, returned false in
\* the call of getViolations.
CheckFailed(id) == id = "unique-messages" /\ call.args[2] = "fails"

CheckReturned(id) == check(id, call.args[1], call.args[2] = "none")

\* C17: when the check of an active rule fails, getViolations still completes
\* and returns the violations of the other active rules, the failing rule
\* left out.
C17_FailingCheckIsolated ==
  call.fn = "getViolations" /\ (\E id \in call.input : CheckFailed(id)) =>
    /\ call.outcome.returned
    /\ Range(call.outcome.violations)
         = { id \in call.input : ~ CheckFailed(id) /\ ~ CheckReturned(id) }

\* C18: when all checks complete, getViolations returns exactly the rules
\* active at the start of the call whose check returned false; with no-spaces
\* active, "a b" yields no-spaces and "ab" does not.
C18_ViolationsAreFailedActiveChecks ==
  call.fn = "getViolations" /\ ~ (\E id \in call.input : CheckFailed(id)) =>
    /\ call.outcome.returned
    /\ Range(call.outcome.violations) \subseteq call.input
    /\ \A id \in call.input :
         id \in Range(call.outcome.violations) <=> ~ CheckReturned(id)
    /\ "no-spaces" \in call.input /\ call.args[1] = <<"a", " ", "b">> =>
         "no-spaces" \in Range(call.outcome.violations)
    /\ call.args[1] = <<"a", "b">> =>
         "no-spaces" \notin Range(call.outcome.violations)

C18_Witness ==
  /\ call.fn = "getViolations"
  /\ call.input = {"all-lowercase", "no-spaces", "no-punctuation"}
  /\ call.args = << <<"a", " ", "b">>, "none" >>
  /\ call.outcome = [returned |-> TRUE, violations |-> <<"no-spaces">>]

\* C19: the violations a handler reports are rules of the ruleset active when
\* its getViolations started; they are not read again while the handler
\* awaits, also when the ruleset is replaced meanwhile; and its record is
\* appended to the history as it is when addToViolationHistory runs.
C19_SnapshotAndCurrentWindow ==
  [][ \A h \in Handlers :
        /\ handlers[h].pc = "idle" /\ handlers'[h].pc = "awaiting" =>
             Range(handlers'[h].violations) \subseteq activeRules
        /\ handlers[h].pc = "awaiting" /\ handlers'[h].pc = "awaiting" =>
             handlers'[h].violations = handlers[h].violations
        /\ handlers[h].pc = "awaiting" /\ handlers'[h].pc = "evaluating" =>
             violationHistoryForThisRuleset' =
               Append(violationHistoryForThisRuleset,
                      [violations |-> handlers[h].violations]) ]_vars

\* The ruleset was replaced while the handler was in flight: its record, the
\* first of the new window, names a rule the new ruleset does not hold.
C19_Witness ==
  /\ lastOp.op = "addToViolationHistory"
  /\ Len(violationHistoryForThisRuleset) = 1
  /\ \E id \in Range(violationHistoryForThisRuleset[1].violations) :
       id \notin activeRules

\* The task is inside a run of evaluateChange / inside the writes of
\* updateRules (activeRules cleared or filled, history or clock still old).
InDecisionProcedure(t) ==
  handlers[t].pc \in {"evaluateChange", "clear", "add", "history", "stamp"}

MidSwap(t) == handlers[t].pc \in {"add", "history", "stamp"}

\* C20: under every interleaving of the two handlers and the timer, a run of
\* evaluateChange that replaces finds the engine, when it starts to write, as
\* it read it; while it decides and writes no other task takes a step (no
\* append, no other replacement, no other decision procedure); and a handler
\* takes its snapshot of the active ruleset only when no replacement is
\* half done.
C20_DecisionAndSwapIndivisible ==
  [][ /\ \A t \in Tasks : handlers[t].pc = "clear" => handlers[t].read = engine
      /\ \A t \in Tasks : InDecisionProcedure(t) =>
           \A u \in Tasks \ {t} :
             /\ ~ InDecisionProcedure(u)
             /\ handlers'[u] = handlers[u]
      /\ \A h \in LoopHandlers :
           handlers[h].pc = "idle" /\ handlers'[h].pc = "awaiting" =>
             \A t \in Tasks : ~ MidSwap(t) ]_vars

\* A handler has replaced the ruleset while the other one was in flight.
C20_Witness ==
  /\ lastOp.op = "evaluateChange"
  /\ lastOp.reason \in {ReasonEasier, ReasonHarder}
  /\ handlers["handler2"].pc = "awaiting"
  /\ handlers["handler2"].violations # << >>
  /\ violationHistoryForThisRuleset = << >>

\* The step is a handler's call of addToViolationHistory / the statement of
\* updateRules that empties the history, in the statement-level event loop.
LoopAppendStep ==
  \E h \in LoopHandlers :
    handlers[h].pc = "awaiting" /\ handlers'[h].pc = "evaluateChange"

LoopResetStep ==
  \E t \in Tasks : handlers[t].pc = "history" /\ handlers'[t].pc = "stamp"

\* C21: under every interleaving of the two handlers, the timer and the
\* replacements, the history grows by exactly one record with each call of
\* addToViolationHistory, becomes empty with each replacement and is left
\* alone by every other step: its length is the number of calls since the
\* most recent replacement.
C21_HistoryCountsCallsSinceReplacement ==
  [][ /\ LoopAppendStep =>
           /\ Len(violationHistoryForThisRuleset')
                = Len(violationHistoryForThisRuleset) + 1
           /\ SubSeq(violationHistoryForThisRuleset', 1,
                     Len(violationHistoryForThisRuleset))
                = violationHistoryForThisRuleset
      /\ LoopResetStep => Len(violationHistoryForThisRuleset') = 0
      /\ ~ LoopAppendStep /\ ~ LoopResetStep =>
           violationHistoryForThisRuleset' = violationHistoryForThisRuleset ]_vars

\* Both handlers were in flight across a replacement and have appended since.
C21_Witness ==
  /\ lastRulesetChange = now
  /\ lastOp.op = "addToViolationHistory"
  /\ Len(violationHistoryForThisRuleset) = 2

\* C22 as stated, in the form a finite run refutes: a handler that has
\* accepted a message and awaits leaves its awaits only by appending its one
\* record, and the step after the append is its run of evaluateChange.
C22_EveryMessageRecordedAndEvaluated ==
  [][ \A h \in Handlers :
        /\ handlers[h].pc = "awaiting" /\ handlers'[h].pc # "awaiting" =>
             /\ handlers'[h].pc = "evaluating"
             /\ Len(violationHistoryForThisRuleset')
                  = Len(violationHistoryForThisRuleset) + 1
        /\ handlers[h].pc = "evaluating" => EvaluateChangeStep ]_vars

\* C25: a call of addToViolationHistory appends exactly one record, holding
\* the list passed (the empty one too), to the end of the history and leaves
\* the active ruleset and the last-change timestamp as they are.
C25_AppendChangesNothingElse ==
  [][ lastOp'.op = "addToViolationHistory" =>
        \E h \in Handlers :
          /\ handlers[h].pc = "awaiting"
          /\ violationHistoryForThisRuleset' =
               violationHistoryForThisRuleset
                 \o << [violations |-> handlers[h].violations] >>
          /\ activeRules' = activeRules
          /\ lastRulesetChange' = lastRulesetChange
          /\ ~ Replaced ]_vars

C25_Witness ==
  /\ lastOp.op = "addToViolationHistory"
  /\ Len(violationHistoryForThisRuleset) = 2
  /\ violationHistoryForThisRuleset[2].violations = << >>
  /\ violationHistoryForThisRuleset[1].violations # << >>
  /\ elapsed >= minimumTimeBetweenChanges


\* More than maximumTimeBetweenChanges has elapsed since the last change.
Overdue == started /\ elapsed > maximumTimeBetweenChanges

\* The last step was a run of evaluateChange that replaced the ruleset.
JustReplaced == lastOp.op = "evaluateChange" /\ lastOp.reason # NoReason

\* C23 (as claimed): with no message arriving, under a fair timer, the process
\* keeps running after every replacement the timer makes, and whenever more
\* than maximumTimeBetweenChanges has elapsed since the last change the
\* ruleset is eventually replaced.
C23_TickKeepsRulesetChanging ==
  /\ [](JustReplaced => io.alive)
  /\ (Overdue ~> JustReplaced)

\* C24 (as claimed): a step that replaced the ruleset, run from a message
\* handler, from initializeRules or from the timer, has posted an
\* announcement whose text carries the reason of the replacement and the
\* rules now active.
C24_ReplacementAnnounced ==
  lastOp.reason # NoReason =>
    io.posted = [reason |-> lastOp.reason, ruleset |-> activeRules]


\* C26: calculateDifficulty is additive over disjoint rulesets A and B, gives
\* 0 for the empty ruleset, and a ruleset that gains rules never gets a
\* lower difficulty.
C26_DifficultyAdditive ==
  call.fn = "calculateDifficulty" =>
    /\ call.outcome.union = call.outcome.a + call.outcome.b
    /\ call.args[1] = {} => call.outcome.a = 0
    /\ call.outcome.a <= call.outcome.union

C26_Witness ==
  /\ call.fn = "calculateDifficulty"
  /\ call.args = << {"all-lowercase", "no-spaces"}, {"unique-messages"} >>
  /\ call.outcome = [a |-> 4, b |-> 5, union |-> 9]

\* C27: isValidRuleset(S) is true exactly when S holds no two rules (nor one
\* rule twice over) that a pair of the conflict list names; if S is valid,
\* every subset of S is valid; the empty set and every singleton are valid.
C27_ValidIffNoConflictInside ==
  call.fn = "isValidRuleset" =>
    /\ call.outcome.valid <=> NoConflictingPair(call.input)
    /\ call.outcome.valid => call.outcome.validSubsets = SUBSET call.input
    /\ Cardinality(call.input) <= 1 => call.outcome.valid

C27_Witness ==
  /\ call.fn = "isValidRuleset"
  /\ call.input = {"all-lowercase", "no-spaces", "unique-messages"}
  /\ call.outcome.valid
  /\ {"all-lowercase", "unique-messages"} \in call.outcome.validSubsets

C27_WitnessInvalid ==
  /\ call.fn = "isValidRuleset"
  /\ call.input = {"all-lowercase", "no-spaces", "no-common-words"}
  /\ ~ call.outcome.valid
  /\ {"all-lowercase", "no-spaces"} \in call.outcome.validSubsets
  /\ {"no-spaces", "no-common-words"} \notin call.outcome.validSubsets


\* The ids rule number i of the catalog being built has in its conflictsWith.
BuiltConflictsWith(i) ==
  { call.outcome.conflictsWith[i][k] : k \in DOMAIN call.outcome.conflictsWith[i] }

\* The pair list of the catalog names an id no rule has.
NamesUnknownId(catalog) ==
  \E n \in DOMAIN catalog.conflicts, k \in 1..2 :
    catalog.conflicts[n][k] \notin idsOf(catalog)

\* C28: once conflicts.forEach has returned, rule B's id is in rule A's
\* conflictsWith exactly when rule A's id is in rule B's, and every listed
\* pair of known ids is in both rules' conflictsWith.
C28_ConflictsSymmetric ==
  Built =>
    /\ \A i, j \in DOMAIN call.catalog.rules :
         call.catalog.rules[j].id \in BuiltConflictsWith(i)
           <=> call.catalog.rules[i].id \in BuiltConflictsWith(j)
    /\ \A n \in DOMAIN call.catalog.conflicts :
         LET rule1 == findRuleIn(call.catalog, call.catalog.conflicts[n][1])
             rule2 == findRuleIn(call.catalog, call.catalog.conflicts[n][2])
         IN  rule1 # 0 /\ rule2 # 0 =>
               /\ call.catalog.conflicts[n][2] \in BuiltConflictsWith(rule1)
               /\ call.catalog.conflicts[n][1] \in BuiltConflictsWith(rule2)

C28_Witness ==
  /\ Built
  /\ call.catalog = sourceCatalog
  /\ BuiltConflictsWith(findRuleIn(sourceCatalog, "no-spaces"))
       = {"only-emojis", "no-common-words"}
  /\ "no-spaces" \in BuiltConflictsWith(findRuleIn(sourceCatalog, "only-emojis"))

\* C29 (as claimed): when the pair list names an id no rule has, the engine
\* never installs an initial ruleset.
C29_UnknownIdIsFatal ==
  NamesUnknownId(call.catalog) => ~ started


\* The records of the history passed to the call that hold a violation.
ViolatingRecords ==
  { k \in DOMAIN call.args[1] : call.args[1][k].violations # << >> }

\* C30: getFailRatio of a nonempty history is the number of its records with
\* at least one violation over the number of its records (3 of 10 give
\* 3/10 = 0.3); when evaluateChange computes the ratio the history is
\* nonempty, so the ratio is a number from 0 to 1 (never the NaN of 0/0).
C30_FailRatioDefined ==
  /\ call.fn = "getFailRatio" /\ call.args[1] # << >> =>
       /\ call.outcome.failRatio =
            [num |-> Cardinality(ViolatingRecords), den |-> Len(call.args[1])]
       /\ Len(call.args[1]) = 10 /\ Cardinality(ViolatingRecords) = 3 =>
            call.outcome.failRatio.num * 10 = 3 * call.outcome.failRatio.den
  /\ call.fn = "evaluateChange" /\ call.outcome.computed =>
       /\ call.args[1] # << >>
       /\ ~ isNaN(call.outcome.failRatio)
       /\ call.outcome.failRatio =
            [num |-> Cardinality(ViolatingRecords), den |-> Len(call.args[1])]
       /\ 0 <= call.outcome.failRatio.num
       /\ call.outcome.failRatio.num <= call.outcome.failRatio.den

C30_Witness ==
  /\ call.fn = "getFailRatio"
  /\ Len(call.args[1]) = 10
  /\ call.outcome.failRatio = [num |-> 3, den |-> 10]

C30_WitnessEvaluateChange ==
  /\ call.fn = "evaluateChange"
  /\ call.outcome = [computed |-> TRUE, failRatio |-> [num |-> 1, den |-> 2]]


\* C35 (as claimed): once initializeRules has run, the active ruleset is
\* never empty.
C35_ActiveRulesetNonempty == started => activeRules # {}


\* The step replaced the ruleset by one randomValidRuleset generated.
FullRegeneration ==
  lastOp'.reason \in { ReasonLongTime, ReasonManyMessages, ReasonEasierFallback,
                       ReasonHarderFallback, ReasonChance }

\* C31: a full regeneration decided by evaluateChange installs a ruleset that
\* randomValidRuleset can return for the target (initialRoughDifficulty +
\* difficulty of the ruleset active at the decision) / 2 (regeneratedTable
\* lists these rulesets by that difficulty): its difficulty is at
\* least the target unless no rule can be added to it; the target is at least
\* 3 and the ruleset installed is not empty.
C31_RegenerationTarget ==
  [][ EvaluateChangeStep /\ FullRegeneration =>
        LET num == initialRoughDifficulty + calculateDifficulty(activeRules)
        IN  /\ activeRules' \in regeneratedTable[num - initialRoughDifficulty]
            /\ \/ calculateDifficulty(activeRules') * 2 >= num
               \/ getAdditionalValidRules(activeRules') = {}
            /\ num >= 3 * 2
            /\ activeRules' # {} ]_vars

C31_Witness ==
  /\ lastOp.op = "evaluateChange"
  /\ lastOp.reason = ReasonChance
  /\ activeRules = {"no-spaces", "no-punctuation"}


\* C34: lastRulesetChange is the time of the last replacement (every
\* replacement, by initializeRules or evaluateChange, stamps it and nothing
\* else writes it), and a replacement decided by evaluateChange is made at
\* least minimumTimeBetweenChanges after it: two replacements are never
\* closer than that.
C34_ReplacementsSpacedByMinimum ==
  [][ /\ Replaced => lastRulesetChange' = now'
      /\ lastRulesetChange' # lastRulesetChange => Replaced
      /\ EvaluateChangeStep /\ Replaced =>
           now - lastRulesetChange >= minimumTimeBetweenChanges ]_vars

C34_Witness ==
  /\ lastOp.op = "evaluateChange"
  /\ lastOp.reason = ReasonEasier
  /\ now = minimumTimeBetweenChanges
  /\ lastRulesetChange = now


\* C36: a replacement with the reason "made easier" installs a ruleset of
\* strictly lower difficulty than the one it replaces, and is decided only
\* with a fail ratio above maxFailRatio; a replacement with the reason "made
\* harder" installs a strictly higher difficulty and is decided only with a
\* fail ratio below minFailRatio.
C36_EasierLowersHarderRaises ==
  [][ /\ lastOp'.reason = ReasonEasier =>
           /\ EvaluateChangeStep
           /\ calculateDifficulty(activeRules') < calculateDifficulty(activeRules)
           /\ violationHistoryForThisRuleset # << >>
           /\ RatioAboveBand
      /\ lastOp'.reason = ReasonHarder =>
           /\ EvaluateChangeStep
           /\ calculateDifficulty(activeRules') > calculateDifficulty(activeRules)
           /\ violationHistoryForThisRuleset # << >>
           /\ RatioBelowBand ]_vars

C36_Witness ==
  /\ lastOp.op = "evaluateChange"
  /\ lastOp.reason = ReasonHarder
  /\ activeRules = {"all-lowercase", "unique-messages", "no-spaces"}


\* A call of mutateRuleset is running or has returned.
Mutating == call.fn = "mutateRuleset" /\ "i" \in DOMAIN call.outcome

\* The working set of mutateRuleset: what the accepted flips so far have made
\* of currentRuleset (a rejected flip is in newRuleset only).
WorkingSet ==
  IF call.outcome.repeating THEN call.outcome.oldRuleset ELSE call.outcome.newRuleset

\* The number of rules in which ruleset differs from currentRuleset.
Distance(ruleset) ==
  Cardinality((ruleset \ call.input) \cup (call.input \ ruleset))

\* C32: the loop counter of mutateRuleset counts the accepted flips: the
\* working set is without conflicting pair and differs from R in at most i
\* rules and in a number of the parity of i; a rejected flip is one rule away
\* from the working set, which it leaves as it was; the function returns the
\* working set after exactly k accepted flips, so mutateRuleset(R, 3) is
\* never R.
C32_ExactlyAmountAcceptedFlips ==
  Mutating =>
    /\ NoConflictingPair(WorkingSet)
    /\ Distance(WorkingSet) <= call.outcome.i
    /\ Distance(WorkingSet) % 2 = call.outcome.i % 2
    /\ call.outcome.repeating =>
         /\ ~ NoConflictingPair(call.outcome.newRuleset)
         /\ \E id \in RuleIds :
              call.outcome.newRuleset = Toggle(call.outcome.oldRuleset, id)
    /\ call.outcome.returned =>
         /\ call.outcome.i = call.args[1]
         /\ ~ call.outcome.repeating
         /\ call.result.ruleset = WorkingSet
         /\ call.args[1] = 3 => call.result.ruleset # call.input

C32_Witness ==
  /\ Mutating
  /\ call.outcome.returned
  /\ call.input = {"all-lowercase", "no-spaces"}
  /\ call.args = <<3>>
  /\ call.result.ruleset = {"no-spaces"}
  /\ call.outcome.oldRuleset = {"no-spaces", "no-punctuation"}

C32_WitnessRejected ==
  /\ Mutating
  /\ call.input = {"all-lowercase", "no-spaces"}
  /\ call.outcome.i = 1
  /\ call.outcome.repeating
  /\ call.outcome.oldRuleset = {"no-spaces"}
  /\ call.outcome.newRuleset = {"no-spaces", "no-common-words"}

\* mutateRuleset is inside its for loop.
MidLoop == Mutating /\ ~ call.outcome.returned /\ call.outcome.i < call.args[1]

\* C33: at every toggle step of mutateRuleset on a valid ruleset some rule's
\* flip is accepted (the removal of any member, and the addition of any rule
\* to the empty set), and with a fair Math.random() the call returns.
C33_MutateTerminates ==
  /\ [](MidLoop =>
          /\ \E id \in RuleIds : ~ whileCondition(Toggle(WorkingSet, id))
          /\ \A id \in WorkingSet : ~ whileCondition(WorkingSet \ {id})
          /\ WorkingSet = {} => \A id \in RuleIds : ~ whileCondition({id}))
  /\ <>(Mutating /\ call.outcome.returned)

C33_Witness ==
  /\ MidLoop
  /\ call.args = <<3>>
  /\ call.outcome.i = 2
  /\ call.outcome.repeating
  /\ WorkingSet = {"all-lowercase", "unique-messages", "no-common-words",
                   "never-repeats-letters", "no-punctuation"}

====
